---- MODULE Spec2Model ----
(***************************************************************************)
(* Model of the FTL API session layer (src/src/api/auth.c): the fixed-size *)
(* session table auth_data, check_client_auth, api_auth (login, status,    *)
(* logout), session revocation and the authentication gate of the other    *)
(* /api endpoints (src/src/api/queries.c).                                  *)
(***************************************************************************)
EXTENDS Integers, Sequences, FiniteSets, TLC

VARIABLES
    auth_data,   \* the session table: slot index -> struct session
    clock,       \* what time(NULL) returns
    rng,         \* number of logins that have called generateSID so far
    config,      \* the configuration items and system facts the session layer reads
    last,        \* the request handled last and the response it got
    wk,          \* API workers handling a login concurrently (race model)
    queries,     \* the in-memory ring of queries, oldest first
    counters,    \* the global counters: queries, status[], querytype[]
    clients,     \* per client: rate_limit and flags.rate_limited
    lastRateLimitCleaner,  \* when the housekeeper last reset the rate windows
    db,          \* the database handle of the API: disk database attached, statements
                 \* prepared and not finalized, holders of the lock on the shared memory
    domains,     \* the log parser's table of domains: domain, count, blockedcount
    forwarded,   \* the log parser's table of upstream servers: ip, count
    overTime,    \* the log parser's buckets of ten minutes: total, blocked
    dnsmasqlog,  \* the lines of pihole.log
    logpos       \* the position of the stream dnsmasqlog: the lines read so far

vars == <<auth_data, clock, rng, config, last, wk,
          queries, counters, clients, lastRateLimitCleaner, db,
          domains, forwarded, overTime, dnsmasqlog, logpos>>

\* the query store and the rate limiter, untouched by the session layer
corevars == <<queries, counters, clients, lastRateLimitCleaner, db,
              domains, forwarded, overTime, dnsmasqlog, logpos>>

\* the log and what only the log parser writes
logvars == <<domains, forwarded, overTime, dnsmasqlog, logpos>>

-----------------------------------------------------------------------------
(* Bounds of the model *)

\* number of slots of auth_data (API_MAX_CLIENTS of the program)
API_MAX_CLIENTS == 2
\* largest value of the clock
MaxTime == 2
\* largest number of logins that reach generateSID
MaxRng == 2
\* webserver.session.timeout of the configuration, in seconds
SessionTimeout == 1
\* number of API workers that handle logins at the same time
MaxWorkers == 2

Slots == 0 .. (API_MAX_CLIENTS - 1)

-----------------------------------------------------------------------------
(* Values *)

API_AUTH_UNAUTHORIZED == -1
API_AUTH_LOCALHOST == -2
API_AUTH_EMPTYPASS == -3

LOCALHOSTv4 == "127.0.0.1"
LOCALHOSTv6 == "::1"

\* a header, cookie or body field that is absent (NULL)
NoSid == -1
\* the empty string as a SID or CSRF token (a zeroed buffer)
EmptySid == 0
\* NULL as a password or header string
NULL == "NULL"

HTTP_GET == "GET"
HTTP_POST == "POST"
HTTP_DELETE == "DELETE"

PASSWORD_CORRECT == "PASSWORD_CORRECT"
APPPASSWORD_CORRECT == "APPPASSWORD_CORRECT"
PASSWORD_INCORRECT == "PASSWORD_INCORRECT"
PASSWORD_RATE_LIMITED == "PASSWORD_RATE_LIMITED"

\* static struct session auth_data[...] = {{false, false, {false, false}, 0, 0, {0}, {0}, {0}, {0}}}
ZeroSession ==
    [used |-> FALSE, app |-> FALSE, tls_login |-> FALSE, tls_mixed |-> FALSE,
     login_at |-> 0, valid_until |-> 0, sid |-> EmptySid, csrf |-> EmptySid,
     remote_addr |-> "", user_agent |-> ""]

-----------------------------------------------------------------------------
(* check_client_auth *)

\* is_local_api_user(): is this client connecting from localhost?
is_local_api_user(remote_addr) ==
    remote_addr = LOCALHOSTv4 \/ remote_addr = LOCALHOSTv6

\* Mutant: the cookie is consulted before the sid / X-FTL-SID header.
ExtractSid_CookieFirst(req) ==
    IF req.payload_avail /\ req.form_sid # NoSid /\ req.form_sid # EmptySid
    THEN [avail |-> TRUE, sid |-> req.form_sid, cookie_auth |-> FALSE]
    ELSE IF req.payload_avail /\ req.json /\ req.json_sid # NoSid
    THEN [avail |-> TRUE, sid |-> req.json_sid, cookie_auth |-> FALSE]
    ELSE IF req.cookie_sid # NoSid
    THEN [avail |-> TRUE, sid |-> req.cookie_sid, cookie_auth |-> TRUE]
    ELSE IF req.header_sid # NoSid
    THEN [avail |-> TRUE, sid |-> req.header_sid, cookie_auth |-> FALSE]
    ELSE [avail |-> FALSE, sid |-> NoSid, cookie_auth |-> FALSE]

\* The SID of the request and whether it came from the cookie: form body,
\* then JSON body, then the sid / X-FTL-SID header, then the cookie.
ExtractSid(req) ==
    IF req.payload_avail /\ req.form_sid # NoSid /\ req.form_sid # EmptySid
    THEN [avail |-> TRUE, sid |-> req.form_sid, cookie_auth |-> FALSE]
    ELSE IF req.payload_avail /\ req.json /\ req.json_sid # NoSid
    THEN [avail |-> TRUE, sid |-> req.json_sid, cookie_auth |-> FALSE]
    ELSE IF req.header_sid # NoSid
    THEN [avail |-> TRUE, sid |-> req.header_sid, cookie_auth |-> FALSE]
    ELSE IF req.cookie_sid # NoSid
    THEN [avail |-> TRUE, sid |-> req.cookie_sid, cookie_auth |-> TRUE]
    ELSE [avail |-> FALSE, sid |-> NoSid, cookie_auth |-> FALSE]

\* Mutant: the lookup loop forgets to compare the remote address.
SessionMatches_NoAddr(s, req, sid, tnow) ==
    /\ s.used
    /\ s.valid_until >= tnow
    /\ s.sid = sid

\* The test of the lookup loop: slot s authenticates this request.
SessionMatches(s, req, sid, tnow) ==
    /\ s.used
    /\ s.valid_until >= tnow
    /\ s.remote_addr = req.remote_addr
    /\ s.sid = sid

\* Mutant: tls.mixed is assigned ("=") where the code accumulates ("|=").
SlideSession_Assign(s, req, tnow) ==
    [s EXCEPT !.valid_until = tnow + config.session_timeout,
              !.tls_mixed = (req.is_ssl # s.tls_login)]

\* The update of the slot of an authenticated request.
SlideSession(s, req, tnow) ==
    [s EXCEPT !.valid_until = tnow + config.session_timeout,
              !.tls_mixed = s.tls_mixed \/ (req.is_ssl # s.tls_login)]

\* check_client_auth(api, is_api) on the table ad at time tnow: the verdict
\* (a slot id, or one of the API_AUTH_ verdicts) and the table it leaves.
check_client_auth(ad, req, is_api, tnow) ==
    IF ~config.localAPIauth /\ is_local_api_user(req.remote_addr)
    THEN [uid |-> API_AUTH_LOCALHOST, ad |-> ad]
    ELSE IF config.pwhash = ""
    THEN [uid |-> API_AUTH_EMPTYPASS, ad |-> ad]
    ELSE LET x == ExtractSid(req)
             need_csrf == x.cookie_auth /\ is_api
             found == {i \in Slots : SessionMatches(ad[i], req, x.sid, tnow)}
         IN  IF ~x.avail
             THEN [uid |-> API_AUTH_UNAUTHORIZED, ad |-> ad]
             ELSE IF need_csrf /\ req.csrf_header = NoSid
             THEN [uid |-> API_AUTH_UNAUTHORIZED, ad |-> ad]
             ELSE IF found = {}
             THEN [uid |-> API_AUTH_UNAUTHORIZED, ad |-> ad]
             ELSE LET i == CHOOSE j \in found : \A k \in found : j <= k
                  IN  IF need_csrf /\ ad[i].csrf # req.csrf_header
                      THEN [uid |-> API_AUTH_UNAUTHORIZED, ad |-> ad]
                      ELSE [uid |-> i,
                            ad |-> [ad EXCEPT ![i] = SlideSession(ad[i], req, tnow)]]

-----------------------------------------------------------------------------
(* Session objects and responses *)

\* The default of the session timeout (the .d member of the config item);
\* the value in force (.v) is the config field session_timeout.
DefaultSessionTimeout == 300

\* pi_hole_extra_headers: no header, FTL_SET_COOKIE with a sid and a Max-Age,
\* and FTL_DELETE_COOKIE (Max-Age=0).
NoHeader == [sid |-> NoSid, max_age |-> -1]
FTL_SET_COOKIE(sid, max_age) == [sid |-> sid, max_age |-> max_age]
FTL_DELETE_COOKIE == [sid |-> NoSid, max_age |-> 0]

\* The header check_client_auth leaves for verdict user_id on table ad.
check_client_auth_header(ad, user_id) ==
    IF user_id > API_AUTH_UNAUTHORIZED
    THEN FTL_SET_COOKIE(ad[user_id].sid, config.session_timeout)
    ELSE NoHeader

\* get_session_object(): the "session" object of a response.
get_session_object(ad, user_id, tnow) ==
    IF user_id = API_AUTH_LOCALHOST \/ user_id = API_AUTH_EMPTYPASS
    THEN [valid |-> TRUE, sid |-> NoSid, csrf |-> NoSid, validity |-> -1]
    ELSE IF user_id > API_AUTH_UNAUTHORIZED /\ ad[user_id].used
    THEN [valid |-> TRUE, sid |-> ad[user_id].sid, csrf |-> ad[user_id].csrf,
          validity |-> ad[user_id].valid_until - tnow]
    ELSE [valid |-> FALSE, sid |-> NoSid, csrf |-> NoSid, validity |-> -1]

\* delete_session(): zero out one slot.
delete_session(ad, user_id) ==
    IF user_id < 0 \/ user_id >= API_MAX_CLIENTS
    THEN ad
    ELSE [ad EXCEPT ![user_id] = ZeroSession]

\* send_api_auth_status(): the response for verdict user_id, and the table
\* it leaves (DELETE of a valid session revokes it).
send_api_auth_status(ad, user_id, method, tnow) ==
    IF user_id = API_AUTH_LOCALHOST \/ user_id = API_AUTH_EMPTYPASS
    THEN [code |-> 200, cookie |-> "none", ad |-> ad, header |-> NoHeader,
          session |-> get_session_object(ad, user_id, tnow)]
    ELSE IF user_id > API_AUTH_UNAUTHORIZED /\ method \in {HTTP_GET, HTTP_POST}
    THEN [code |-> 200, cookie |-> "set", ad |-> ad,
          header |-> FTL_SET_COOKIE(ad[user_id].sid, config.session_timeout_default),
          session |-> get_session_object(ad, user_id, tnow)]
    ELSE IF user_id > API_AUTH_UNAUTHORIZED /\ method = HTTP_DELETE
    THEN LET ad1 == delete_session(ad, user_id)
         IN  [code |-> 410, cookie |-> "delete", ad |-> ad1, header |-> FTL_DELETE_COOKIE,
              session |-> get_session_object(ad1, user_id, tnow)]
    ELSE [code |-> 401, cookie |-> "delete", ad |-> ad, header |-> FTL_DELETE_COOKIE,
          session |-> get_session_object(ad, user_id, tnow)]

\* send_json_error(): an error response; no session object, table untouched.
send_json_error(ad, code) ==
    [code |-> code, cookie |-> "none", ad |-> ad, header |-> NoHeader,
     session |-> [valid |-> FALSE, sid |-> NoSid, csrf |-> NoSid, validity |-> -1]]

-----------------------------------------------------------------------------
(* Login *)

\* Values of the JSON field "password" that are no string
NoKey == "<absent>"
NonString == "<not a string>"
\* Values of the JSON field "totp"
NoTotp == "<absent>"
GoodTotp == "good"
BadTotp == "bad"

\* verify_login(): the verdict of the password verifier on a password. The
\* verifier is pluggable: any of its four verdicts may come back.
verify_login(password) ==
    {PASSWORD_CORRECT, PASSWORD_INCORRECT, PASSWORD_RATE_LIMITED}
    \cup (IF config.app_pwhash # "" THEN {APPPASSWORD_CORRECT} ELSE {})

\* Mutant: every TOTP code is accepted.
verifyTOTP_Any(code) == TRUE

\* verifyTOTP(): is the code the one the TOTP secret yields now?
verifyTOTP(code) == code = GoodTotp

\* basic_auth(): the password of an "Authorization: Basic" header of user
\* pi-hole, NULL without such a header.
basic_auth(req) == req.basic

\* generateSID(): writes a fresh token into buf, or leaves buf as it is when
\* getrandom() fails.
generateSID(buf, ok, fresh) == IF ok THEN fresh ELSE buf

\* The outcomes of the two getrandom() calls of a login (the one for the sid,
\* the one for the csrf): where getrandom() can fail, each call may. The
\* tokens of the k-th login that calls generateSID are the fresh pair k.
RngOutcomes ==
    {r \in [sid_ok : BOOLEAN, csrf_ok : BOOLEAN] :
        /\ rng < MaxRng
        /\ ~(r.sid_ok /\ r.csrf_ok) => config.getrandom_may_fail}

\* Is slot s expired at tnow ("Expired slot, mark as unused")?
SlotExpired(s, tnow) == s.used /\ s.valid_until < tnow

\* Mutant: the scan takes unused slots only and reclaims no expired one.
RECURSIVE find_slot_NoReclaim(_, _, _)
find_slot_NoReclaim(ad, i, tnow) ==
    IF i >= API_MAX_CLIENTS
    THEN [ad |-> ad, slot |-> API_MAX_CLIENTS]
    ELSE IF ~ad[i].used
         THEN [ad |-> ad, slot |-> i]
         ELSE find_slot_NoReclaim(ad, i + 1, tnow)

\* The slot scan of a login: slots below the one found are left alone, an
\* expired slot is zeroed when the scan reaches it, and the scan stops at the
\* first slot that is then unused. slot = API_MAX_CLIENTS: none found.
RECURSIVE find_slot(_, _, _)
find_slot(ad, i, tnow) ==
    IF i >= API_MAX_CLIENTS
    THEN [ad |-> ad, slot |-> API_MAX_CLIENTS]
    ELSE LET ad1 == IF SlotExpired(ad[i], tnow) THEN delete_session(ad, i) ELSE ad
         IN  IF ~ad1[i].used
             THEN [ad |-> ad1, slot |-> i]
             ELSE find_slot(ad1, i + 1, tnow)

\* The fields a login writes into the slot it found, before it generates
\* the SID and the CSRF token.
claim_session(s, req, result, tnow) ==
    [s EXCEPT !.used = TRUE,
              !.login_at = tnow,
              !.valid_until = tnow + config.session_timeout,
              !.remote_addr = req.remote_addr,
              !.user_agent = IF req.user_agent # NULL THEN req.user_agent ELSE "",
              !.tls_login = req.is_ssl,
              !.tls_mixed = FALSE,
              !.app = (result = APPPASSWORD_CORRECT)]

\* The slot a login found, once it is claimed and holds its tokens.
new_session(s, req, result, tnow, r) ==
    [claim_session(s, req, result, tnow) EXCEPT
              !.sid = generateSID(s.sid, r.sid_ok, rng + 1),
              !.csrf = generateSID(s.csrf, r.csrf_ok, rng + 1)]

\* What a handler run leaves: the response, the table, and what it did. The
\* header is the one written last: by the response, else by check_client_auth.
Outcome(resp, cuid, uid, result, totp, slot, used) ==
    [code |-> resp.code, cookie |-> resp.cookie, session |-> resp.session,
     header |-> IF resp.header # NoHeader THEN resp.header
                ELSE check_client_auth_header(resp.ad, cuid),
     ad |-> resp.ad, cuid |-> cuid, uid |-> uid, result |-> result,
     totp |-> totp, slot |-> slot, rng_used |-> used]

\* Mutant: the comparison with APPPASSWORD_CORRECT is inverted.
NeedTotp_Inverted(result) ==
    config.totp_secret # "" /\ result = APPPASSWORD_CORRECT

\* Does this login have to present a TOTP code?
NeedTotp(result) ==
    config.totp_secret # "" /\ result # APPPASSWORD_CORRECT

\* api_auth() after the password was accepted or refused by verify_login.
api_auth_login(ad, req, user_id, result, tnow) ==
    IF result = PASSWORD_CORRECT \/ result = APPPASSWORD_CORRECT
    THEN LET need_totp == NeedTotp(result)
             json_totp == IF req.json THEN req.totp ELSE NoTotp
         IN  IF need_totp /\ json_totp = NoTotp
             THEN {Outcome(send_json_error(ad, 400), user_id, user_id, result,
                           "missing", API_MAX_CLIENTS, 0)}
             ELSE IF need_totp /\ ~verifyTOTP(json_totp)
             THEN {Outcome(send_json_error(ad, 401), user_id, user_id, result,
                           "rejected", API_MAX_CLIENTS, 0)}
             ELSE LET f == find_slot(ad, 0, tnow)
                      t == IF need_totp THEN "accepted" ELSE "none"
                  IN  IF f.slot < API_MAX_CLIENTS
                      THEN {Outcome(send_api_auth_status(
                                [f.ad EXCEPT ![f.slot] =
                                    new_session(f.ad[f.slot], req, result, tnow, r)],
                                f.slot, req.method, tnow),
                              user_id, f.slot, result, t, f.slot, 1)
                            : r \in RngOutcomes}
                      ELSE {Outcome(send_api_auth_status(f.ad, user_id, req.method, tnow),
                                    user_id, user_id, result, t, API_MAX_CLIENTS, 0)}
    ELSE IF result = PASSWORD_RATE_LIMITED
    THEN {Outcome(send_json_error(ad, 429), user_id, user_id, result, "none",
                  API_MAX_CLIENTS, 0)}
    ELSE {Outcome(send_api_auth_status(ad, user_id, req.method, tnow),
                  user_id, user_id, result, "none", API_MAX_CLIENTS, 0)}

\* api_auth(): GET status, POST login, DELETE logout. tnow is the time the
\* handler read first, cnow the time check_client_auth read after it.
api_auth(ad, req, tnow, cnow) ==
    LET c == check_client_auth(ad, req, FALSE, cnow)
        user_id == c.uid
        empty_password == config.pwhash = ""
    IN  IF req.method = HTTP_POST
           /\ (~req.json \/ req.json_password = NoKey \/ req.json_password = NonString)
        THEN {Outcome(send_json_error(c.ad, 400), user_id, user_id, "none", "none",
                      API_MAX_CLIENTS, 0)}
        ELSE LET pw0 == IF req.method = HTTP_POST THEN req.json_password ELSE NULL
                 password == IF pw0 = NULL \/ pw0 = "" THEN basic_auth(req) ELSE pw0
                 no_pw == password = NULL \/ password = ""
                 status == {Outcome(send_api_auth_status(c.ad, user_id, req.method, tnow),
                                    user_id, user_id, "none", "none", API_MAX_CLIENTS, 0)}
             IN  IF user_id # API_AUTH_UNAUTHORIZED /\ no_pw
                 THEN status
                 ELSE IF req.method = HTTP_DELETE
                 THEN status
                 ELSE IF password = NULL /\ ~empty_password
                 THEN status
                 ELSE UNION {api_auth_login(c.ad, req, user_id, result, tnow) :
                             result \in IF empty_password /\ no_pw
                                        THEN {PASSWORD_CORRECT}
                                        ELSE verify_login(password)}

\* api_auth_session_delete(): DELETE /api/auth/session/{uid}, run for an
\* authenticated client.
api_auth_session_delete(ad, uid) ==
    IF uid <= API_AUTH_UNAUTHORIZED \/ uid >= API_MAX_CLIENTS
    THEN [code |-> 400, ad |-> ad]
    ELSE IF ~ad[uid].used
    THEN [code |-> 400, ad |-> ad]
    ELSE [code |-> 204, ad |-> delete_session(ad, uid)]

\* delete_all_sessions(): zero out all sessions.
delete_all_sessions(ad) == [i \in Slots |-> ZeroSession]

-----------------------------------------------------------------------------
(* Requests *)

RemoteAddrs == {LOCALHOSTv4, "10.0.0.2"}

\* The user-agent header each client sends (the second client sends none).
UserAgentOf(a) == IF a = LOCALHOSTv4 THEN "curl" ELSE NULL

\* Is the request made over TLS? Only where a certificate is configured, and
\* the local client always connects in the clear.
SslStates(a) == IF config.tls_cert # "" /\ a # LOCALHOSTv4 THEN BOOLEAN ELSE {FALSE}

\* SIDs and CSRF tokens a client may present in a header: the empty string
\* and every token handed out so far. A cookie carries a token handed out.
Tokens == 0 .. rng
CookieTokens == 1 .. rng

NoSidPart == [header_sid |-> NoSid, cookie_sid |-> NoSid, csrf_header |-> NoSid]

\* The ways a request to /api/auth presents its SID: none, an empty sid
\* header, or the cookie.
AuthSidParts ==
    {NoSidPart}
    \cup {[header_sid |-> EmptySid, cookie_sid |-> NoSid, csrf_header |-> NoSid]}
    \cup {[header_sid |-> NoSid, cookie_sid |-> t, csrf_header |-> NoSid] :
            t \in CookieTokens}

\* The ways a request to another endpoint presents its SID: none, the sid
\* header, or the cookie, then with or without an X-CSRF-TOKEN header.
SidParts ==
    {NoSidPart}
    \cup {[header_sid |-> t, cookie_sid |-> NoSid, csrf_header |-> NoSid] : t \in Tokens}
    \cup {[header_sid |-> NoSid, cookie_sid |-> t, csrf_header |-> c] :
            t \in CookieTokens, c \in {NoSid} \cup Tokens}

TotpParts == IF config.totp_secret # "" THEN {NoTotp, GoodTotp, BadTotp} ELSE {NoTotp}

\* The bodies and Authorization headers of a request to /api/auth.
BodyParts(method) ==
    IF method = HTTP_POST
    THEN {[json |-> FALSE, json_password |-> NoKey, basic |-> NULL, totp |-> NoTotp]}
         \cup {[json |-> TRUE, json_password |-> p, basic |-> NULL, totp |-> NoTotp] :
                 p \in {NoKey, NonString}}
         \cup {[json |-> TRUE, json_password |-> "p", basic |-> NULL, totp |-> t] :
                 t \in TotpParts}
         \cup {[json |-> TRUE, json_password |-> "", basic |-> b, totp |-> t] :
                 b \in {NULL, "p"}, t \in TotpParts}
    ELSE {[json |-> FALSE, json_password |-> NoKey, basic |-> b, totp |-> NoTotp] :
            b \in {NULL, "", "p"}}

Request(method, a, ssl, sp, bp) ==
    [method |-> method, remote_addr |-> a, is_ssl |-> ssl,
     user_agent |-> UserAgentOf(a),
     payload_avail |-> bp.json, form_sid |-> NoSid, json |-> bp.json,
     json_sid |-> NoSid, header_sid |-> sp.header_sid, cookie_sid |-> sp.cookie_sid,
     csrf_header |-> sp.csrf_header, json_password |-> bp.json_password,
     basic |-> bp.basic, totp |-> bp.totp]

NoBody == [json |-> FALSE, json_password |-> NoKey, basic |-> NULL, totp |-> NoTotp]

-----------------------------------------------------------------------------
(* The query ring and the garbage collector (src/src/gc.c). Of the aggregates
   runGC adjusts, the model keeps counters.queries, counters.status and
   counters.querytype; the overTime, client, domain and reply aggregates are
   left out. *)

\* seconds between two runs of the garbage collector
GCinterval == 2
\* delay applied to the garbage collection
GCdelay == 0
\* webserver.api.maxHistory of the configuration, in seconds
MaxHistory == 2

\* enum query_status: the unknown status, one forwarded and one blocked status
QUERY_UNKNOWN == "QUERY_UNKNOWN"
QUERY_FORWARDED == "QUERY_FORWARDED"
QUERY_GRAVITY == "QUERY_GRAVITY"
Statuses == {QUERY_UNKNOWN, QUERY_FORWARDED, QUERY_GRAVITY}

\* enum query_type: two of the types
TYPE_A == "TYPE_A"
TYPE_AAAA == "TYPE_AAAA"
Types == {TYPE_A, TYPE_AAAA}

\* counters of a ring without queries
ZeroCounters ==
    [queries |-> 0, status |-> [s \in Statuses |-> 0], querytype |-> [t \in Types |-> 0]]

\* a % b of C: the remainder has the sign of a
CRem(a, b) == IF a >= 0 THEN a % b ELSE -((-a) % b)

\* query_set_status(): move the query from the counter of its status to the
\* counter of the new one.
query_set_status(c, query, new_status) ==
    [c EXCEPT !.status = [[c.status EXCEPT ![query.status] = @ - 1]
                             EXCEPT ![new_status] = @ + 1]]

\* runGC: the minimum timestamp to keep.
Mintime(now, flush) ==
    IF flush
    THEN now
    ELSE LET m == now - (GCdelay + config.maxHistory)
         IN  m - CRem(m, GCinterval)

\* runGC: the loop over the queries, from index i (0-based) on. It stops at
\* the first query that is too new; every query before it has its type and
\* status counters lowered and its status set to QUERY_UNKNOWN.
RECURSIVE ProcessQueries(_, _, _, _, _, _)
ProcessQueries(qs, c, i, n, mintime, removed) ==
    IF i >= n
    THEN [queries |-> qs, counters |-> c, removed |-> removed]
    ELSE LET query == qs[i + 1]
         IN  IF query.timestamp > mintime
             THEN [queries |-> qs, counters |-> c, removed |-> removed]
             ELSE LET c1 == [c EXCEPT !.querytype[query.type] = @ - 1]
                      c2 == IF query.status # QUERY_UNKNOWN
                            THEN [c1 EXCEPT !.status[QUERY_UNKNOWN] = @ - 1]
                            ELSE c1
                      c3 == query_set_status(c2, query, QUERY_UNKNOWN)
                      qs1 == [qs EXCEPT ![i + 1].status = QUERY_UNKNOWN]
                  IN  ProcessQueries(qs1, c3, i + 1, n, mintime, removed + 1)

\* runGC(now, lastGCrun, flush) on the ring qs with counters c: the ring and
\* the counters it leaves. The memory is moved forward from getQuery(removed - 1)
\* for counters->queries - removed queries; the rest of the ring is zeroed.
runGC(qs, c, now, flush) ==
    LET mintime == Mintime(now, flush)
        p == ProcessQueries(qs, c, 0, c.queries, mintime, 0)
    IN  IF p.removed > 0
        THEN [queries |-> SubSeq(p.queries, p.removed, c.queries - 1),
              counters |-> [p.counters EXCEPT !.queries = @ - p.removed],
              removed |-> p.removed, mintime |-> mintime]
        ELSE [queries |-> p.queries, counters |-> p.counters,
              removed |-> 0, mintime |-> mintime]

\* No queries, no clients: the core as the session layer sees it.
\* The database handle after start-up: the disk database is not attached, no
\* statement is prepared and nobody holds the lock.
NoDb == [attached |-> FALSE, stmts |-> 0, locks |-> 0]

\* The log parser has read nothing: empty tables, an empty log.
NoLog ==
    /\ domains = <<>>
    /\ forwarded = <<>>
    /\ overTime = <<>>
    /\ dnsmasqlog = <<>>
    /\ logpos = 0

NoCore ==
    /\ queries = <<>>
    /\ counters = ZeroCounters
    /\ clients = <<>>
    /\ lastRateLimitCleaner = 0
    /\ db = NoDb
    /\ NoLog

-----------------------------------------------------------------------------
(* State machine *)

NoSession == [valid |-> FALSE, sid |-> NoSid, csrf |-> NoSid, validity |-> -1]

NoOutcome ==
    [code |-> 0, cookie |-> "none", session |-> NoSession, header |-> NoHeader,
     ad |-> <<>>,
     cuid |-> API_AUTH_UNAUTHORIZED, uid |-> API_AUTH_UNAUTHORIZED,
     result |-> "none", totp |-> "none", slot |-> API_MAX_CLIENTS, rng_used |-> 0]

\* Where the password of a request came from.
PwSrc(req) ==
    IF req.method = HTTP_POST /\ req.json /\ req.json_password = "p" THEN "json"
    ELSE IF req.basic # NULL THEN "basic"
    ELSE "none"

\* The record of the request handled last: what it carried and what came
\* back; reclaimed: the slot the login took held an expired session.
Last(op, req, o) ==
    [op |-> op, method |-> req.method, remote_addr |-> req.remote_addr,
     is_ssl |-> req.is_ssl, sid |-> ExtractSid(req).sid,
     cookie_auth |-> ExtractSid(req).cookie_auth, csrf_header |-> req.csrf_header,
     pwsrc |-> PwSrc(req), json_totp |-> IF req.json THEN req.totp ELSE NoTotp,
     now |-> clock, code |-> o.code, cookie |-> o.cookie,
     hdr_sid |-> o.header.sid, max_age |-> o.header.max_age,
     valid |-> o.session.valid, rsid |-> o.session.sid,
     cuid |-> o.cuid, uid |-> o.uid, result |-> o.result, totp |-> o.totp,
     slot |-> o.slot,
     reclaimed |-> o.slot \in Slots /\ auth_data[o.slot].used]

NoRequest == Request("none", "", FALSE, NoSidPart, NoBody)

NoLast(op) == [Last(op, NoRequest, NoOutcome) EXCEPT !.now = 0]

\* No request is being answered.
Idle == NoLast("idle")

\* The configurations explored. A password is set unless said otherwise;
\* the session timeout is SessionTimeout throughout.
Config(pwhash, totp, app, tls, local, rngfail) ==
    [pwhash |-> pwhash, totp_secret |-> totp, app_pwhash |-> app, tls_cert |-> tls,
     localAPIauth |-> local, getrandom_may_fail |-> rngfail,
     session_timeout |-> SessionTimeout,
     session_timeout_default |-> DefaultSessionTimeout]

PwHash == "$BALLOON-SHA256$v=1$"

\* no TLS, no TOTP, no app password: without a password, with a password, and
\* with a password and local clients exempt from authentication
PlainConfigs ==
    {Config("", "", "", "", TRUE, FALSE),
     Config(PwHash, "", "", "", TRUE, FALSE),
     Config(PwHash, "", "", "", FALSE, FALSE)}

\* a password, nothing else
PwConfigs == {Config(PwHash, "", "", "", TRUE, FALSE)}

\* a TLS certificate and an app password
TlsConfigs == {Config(PwHash, "", PwHash, "tls.pem", TRUE, FALSE)}

\* TOTP and an app password
TotpConfigs == {Config(PwHash, "JBSWY3DP", PwHash, "", TRUE, FALSE)}

\* a system on which getrandom() can fail
RngConfigs == {Config(PwHash, "", "", "", TRUE, TRUE)}

NoWorkers == <<>>

InitWith(configs) ==
    /\ auth_data = [i \in Slots |-> ZeroSession]
    /\ clock = 0
    /\ rng = 0
    /\ config \in configs
    /\ last = Idle
    /\ wk = NoWorkers
    /\ NoCore

Init == InitWith(PlainConfigs)
InitPw == InitWith(PwConfigs)
InitTls == InitWith(TlsConfigs)
InitTotp == InitWith(TotpConfigs)
InitRng == InitWith(RngConfigs)

\* A second passes.
Tick ==
    /\ last = Idle
    /\ clock < MaxTime
    /\ clock' = clock + 1
    /\ UNCHANGED <<auth_data, rng, config, last, wk>>
    /\ UNCHANGED corevars

\* A request to /api/auth.
ApiAuth ==
    /\ last = Idle
    /\ \E method \in {HTTP_GET, HTTP_POST, HTTP_DELETE}, a \in RemoteAddrs,
          sp \in AuthSidParts :
        \E ssl \in SslStates(a), bp \in BodyParts(method) :
          LET req == Request(method, a, ssl, sp, bp)
          IN  \E o \in api_auth(auth_data, req, clock, clock) :
                /\ auth_data' = o.ad
                /\ rng' = rng + o.rng_used
                /\ last' = Last("api_auth", req, o)
                /\ UNCHANGED <<clock, config, wk>>
                /\ UNCHANGED corevars

\* A request to another endpoint under /api (GET /api/queries): the handler
\* answers 401 unless check_client_auth lets the client in.
ApiRequest ==
    /\ last = Idle
    /\ \E a \in RemoteAddrs, sp \in SidParts : \E ssl \in SslStates(a) :
        LET req == Request(HTTP_GET, a, ssl, sp, NoBody)
            c == check_client_auth(auth_data, req, TRUE, clock)
            code == IF c.uid = API_AUTH_UNAUTHORIZED THEN 401 ELSE 200
        IN  /\ auth_data' = c.ad
            /\ last' = Last("api_queries", req,
                            [NoOutcome EXCEPT !.code = code, !.cuid = c.uid,
                                              !.uid = c.uid,
                                              !.header = check_client_auth_header(c.ad, c.uid)])
            /\ UNCHANGED <<clock, rng, config, wk>>
            /\ UNCHANGED corevars

\* DELETE /api/auth/session/{uid}: revoke one session.
ApiAuthSessionDelete ==
    /\ last = Idle
    /\ \E uid \in -1 .. API_MAX_CLIENTS :
        LET r == api_auth_session_delete(auth_data, uid)
        IN  /\ auth_data' = r.ad
            /\ last' = Last("api_auth_session_delete", NoRequest,
                            [NoOutcome EXCEPT !.code = r.code, !.uid = uid])
            /\ UNCHANGED <<clock, rng, config, wk>>
            /\ UNCHANGED corevars

\* All sessions are wiped.
DeleteAllSessions ==
    /\ last = Idle
    /\ auth_data' = delete_all_sessions(auth_data)
    /\ UNCHANGED <<clock, rng, config, last, wk>>
    /\ UNCHANGED corevars

\* The response of the request handled last has been sent: the worker waits
\* for the next request.
Respond ==
    /\ last # Idle
    /\ last' = Idle
    /\ UNCHANGED <<auth_data, clock, rng, config, wk>>
    /\ UNCHANGED corevars

Next ==
    \/ Tick
    \/ ApiAuth
    \/ ApiRequest
    \/ ApiAuthSessionDelete
    \/ DeleteAllSessions
    \/ Respond

Spec == Init /\ [][Next]_vars
SpecPw == InitPw /\ [][Next]_vars
SpecTls == InitTls /\ [][Next]_vars
SpecTotp == InitTotp /\ [][Next]_vars
SpecRng == InitRng /\ [][Next]_vars

-----------------------------------------------------------------------------
(* Concurrent logins: the webserver runs several worker threads, and api_auth
   reads and writes auth_data without taking a lock. Each worker handles
   POST /api/auth requests that carry the correct password and no SID, one
   statement group of the slot loop at a time. *)

Workers == 1 .. MaxWorkers

IdleWorker ==
    [pc |-> "idle", remote_addr |-> "", now |-> 0, i |-> 0,
     uid |-> API_AUTH_UNAUTHORIZED, code |-> 0, sid |-> NoSid]

\* The request a worker handles.
LoginRequest(a) ==
    Request(HTTP_POST, a, FALSE, NoSidPart,
            [json |-> TRUE, json_password |-> "p", basic |-> NULL, totp |-> NoTotp])

InitRace ==
    /\ auth_data = [i \in Slots |-> ZeroSession]
    /\ clock = 0
    /\ rng = 0
    /\ config \in PwConfigs
    /\ last = Idle
    /\ wk = [w \in Workers |-> IdleWorker]
    /\ NoCore

\* The worker takes a login: it reads the time, check_client_auth finds no
\* SID, verify_login accepts the password.
WkAccept(w) ==
    /\ wk[w].pc = "idle"
    /\ \E a \in RemoteAddrs :
         wk' = [wk EXCEPT ![w] = [IdleWorker EXCEPT !.pc = "scan", !.remote_addr = a,
                                                    !.now = clock]]
    /\ UNCHANGED <<auth_data, clock, rng, config, last>>
    /\ UNCHANGED corevars

\* One round of the slot loop up to the test of used: an expired slot is
\* freed; an unused slot ends the scan.
WkScan(w) ==
    /\ wk[w].pc = "scan"
    /\ LET i == wk[w].i
       IN  IF i >= API_MAX_CLIENTS
           THEN /\ wk' = [wk EXCEPT ![w].pc = "respond"]
                /\ UNCHANGED auth_data
           ELSE LET ad1 == IF SlotExpired(auth_data[i], wk[w].now)
                           THEN delete_session(auth_data, i)
                           ELSE auth_data
                IN  /\ auth_data' = ad1
                    /\ wk' = IF ~ad1[i].used
                             THEN [wk EXCEPT ![w].pc = "claim"]
                             ELSE [wk EXCEPT ![w].i = i + 1]
    /\ UNCHANGED <<clock, rng, config, last>>
    /\ UNCHANGED corevars

\* The worker writes the session into the slot it found unused.
WkClaim(w) ==
    /\ wk[w].pc = "claim"
    /\ auth_data' = [auth_data EXCEPT ![wk[w].i] =
                        claim_session(auth_data[wk[w].i], LoginRequest(wk[w].remote_addr),
                                      PASSWORD_CORRECT, wk[w].now)]
    /\ wk' = [wk EXCEPT ![w].pc = "generate"]
    /\ UNCHANGED <<clock, rng, config, last>>
    /\ UNCHANGED corevars

\* The worker generates the SID and the CSRF token of the slot.
WkGenerate(w) ==
    /\ wk[w].pc = "generate"
    /\ rng < MaxRng
    /\ auth_data' = [auth_data EXCEPT
                        ![wk[w].i].sid = generateSID(auth_data[wk[w].i].sid, TRUE, rng + 1),
                        ![wk[w].i].csrf = generateSID(auth_data[wk[w].i].csrf, TRUE, rng + 1)]
    /\ rng' = rng + 1
    /\ wk' = [wk EXCEPT ![w].uid = wk[w].i, ![w].pc = "respond"]
    /\ UNCHANGED <<clock, config, last>>
    /\ UNCHANGED corevars

\* The worker answers with the status of its user_id.
WkRespond(w) ==
    /\ wk[w].pc = "respond"
    /\ LET r == send_api_auth_status(auth_data, wk[w].uid, HTTP_POST, wk[w].now)
       IN  /\ auth_data' = r.ad
           /\ wk' = [wk EXCEPT ![w].pc = "done", ![w].code = r.code,
                                ![w].sid = r.session.sid]
    /\ UNCHANGED <<clock, rng, config, last>>
    /\ UNCHANGED corevars

\* The worker is free for the next request.
WkDone(w) ==
    /\ wk[w].pc = "done"
    /\ wk' = [wk EXCEPT ![w] = IdleWorker]
    /\ UNCHANGED <<auth_data, clock, rng, config, last>>
    /\ UNCHANGED corevars

NextRace ==
    \/ Tick
    \/ \E w \in Workers : WkAccept(w)
    \/ \E w \in Workers : WkScan(w)
    \/ \E w \in Workers : WkClaim(w)
    \/ \E w \in Workers : WkGenerate(w)
    \/ \E w \in Workers : WkRespond(w)
    \/ \E w \in Workers : WkDone(w)

SpecRace == InitRace /\ [][NextRace]_vars

-----------------------------------------------------------------------------
(* Properties of the session layer *)

\* A step that handles a request of kind op.
Handles(op) == last = Idle /\ last' # Idle /\ last'.op = op

\* A step in which check_client_auth ran.
Checks == Handles("api_auth") \/ Handles("api_queries")

\* A session is valid iff used && valid_until >= now.
SlotValid(s, tnow) == s.used /\ s.valid_until >= tnow

\* A slot a login may take: unused, or expired.
SlotFree(s, tnow) == ~s.used \/ s.valid_until < tnow

\* Slot s after a successful authentication over a connection with TLS state
\* ssl at tnow: the expiry slides, tls.mixed accumulates.
Slid(s, ssl, tnow) ==
    [s EXCEPT !.valid_until = tnow + config.session_timeout,
              !.tls_mixed = s.tls_mixed \/ (ssl # s.tls_login)]

\* The table as the authentication check of the request recorded in l leaves
\* it: the slot that authenticated the request, if any, has been slid.
AfterCheck(ad, l) ==
    IF l.cuid > API_AUTH_UNAUTHORIZED
    THEN [ad EXCEPT ![l.cuid] = Slid(ad[l.cuid], l.is_ssl, clock)]
    ELSE ad

\* Slot s holds a valid session of the client and SID recorded in l.
Holds(s, l) ==
    SlotValid(s, clock) /\ s.remote_addr = l.remote_addr /\ s.sid = l.sid

\* The user agent stored for a request from address a.
StoredUserAgent(a) == IF UserAgentOf(a) # NULL THEN UserAgentOf(a) ELSE ""

\* C1: whenever check_client_auth returns a slot id, that slot was used, was
\* not expired at the time of the check, holds the remote address of the
\* request and the SID presented; an unused or expired slot authenticates
\* no request.
C1_AuthImpliesValidSlot ==
    [][Checks /\ last'.cuid > API_AUTH_UNAUTHORIZED =>
        /\ last'.cuid \in Slots
        /\ auth_data[last'.cuid].used
        /\ auth_data[last'.cuid].valid_until >= clock
        /\ auth_data[last'.cuid].remote_addr = last'.remote_addr
        /\ auth_data[last'.cuid].sid = last'.sid
        /\ \A i \in Slots : ~SlotValid(auth_data[i], clock) => last'.cuid # i]_vars

\* C1 witness: after a login, a logout and a clock advance a request was
\* authenticated by a slot.
C1_Witness ==
    /\ last.op = "api_queries"
    /\ last.cuid > API_AUTH_UNAUTHORIZED
    /\ clock > 0
    /\ \E i \in Slots : ~auth_data[i].used

\* C2: a request that presents its SID in the cookie and targets a path
\* under /api, /api/auth included, is authenticated only if its X-CSRF-TOKEN
\* header equals the csrf of the matching session; with the header missing or
\* different the answer is 401 and no valid_until is extended.
C2_CookieNeedsCsrf ==
    [][Checks /\ last'.cookie_auth
         /\ (\E i \in Slots : Holds(auth_data[i], last'))
         /\ (\A i \in Slots : Holds(auth_data[i], last')
                                => auth_data[i].csrf # last'.csrf_header)
        => /\ last'.cuid = API_AUTH_UNAUTHORIZED
           /\ last'.code = 401
           /\ \A i \in Slots : auth_data'[i].valid_until = auth_data[i].valid_until]_vars

\* C3: accesses to the session table are serialized, so that two concurrent
\* successful logins never claim the same slot: each ends up with its own
\* slot holding its own SID, remote address and expiry.
C3_ConcurrentLoginsOwnSlots ==
    \A w1 \in Workers, w2 \in Workers :
        /\ w1 # w2
        /\ wk[w1].pc = "done" /\ wk[w1].uid > API_AUTH_UNAUTHORIZED
        /\ wk[w2].pc = "done" /\ wk[w2].uid > API_AUTH_UNAUTHORIZED
        /\ wk[w1].now + config.session_timeout >= clock
        /\ wk[w2].now + config.session_timeout >= clock
        => /\ wk[w1].uid # wk[w2].uid
           /\ auth_data[wk[w1].uid].used
           /\ auth_data[wk[w1].uid].sid = wk[w1].sid
           /\ auth_data[wk[w1].uid].remote_addr = wk[w1].remote_addr
           /\ auth_data[wk[w1].uid].valid_until = wk[w1].now + config.session_timeout

C5_NoFreeSlotIs500 ==
    [][Handles("api_auth")
         /\ (\A i \in Slots : SlotValid(auth_data[i], clock))
         /\ last'.cuid = API_AUTH_UNAUTHORIZED
         /\ last'.result \in {PASSWORD_CORRECT, APPPASSWORD_CORRECT}
         /\ last'.totp \in {"none", "accepted"}
        => /\ auth_data' = auth_data
           /\ ~last'.valid
           /\ last'.code = 500]_vars

\* C6: every successful slot authentication sets the slot's valid_until to
\* now + sessionTimeout and tls.mixed to true if the TLS state of the request
\* differs from tls.login, leaving it as it was otherwise, and changes no
\* other slot; tls.mixed stays true and valid_until stays as set until the
\* next authentication or the deletion of the slot, so that the session is
\* valid up to sessionTimeout after the authentication and expired after it.
C6_AuthSlidesSession ==
    [][/\ Checks /\ last'.cuid > API_AUTH_UNAUTHORIZED =>
            LET u == last'.cuid
                s == auth_data[u]
                slid == [s EXCEPT !.valid_until = clock + config.session_timeout,
                                  !.tls_mixed = s.tls_mixed \/ (last'.is_ssl # s.tls_login)]
            IN  /\ last'.method # HTTP_DELETE => auth_data'[u] = slid
                /\ last'.slot = API_MAX_CLIENTS /\ last'.method # HTTP_DELETE
                     => auth_data' = [auth_data EXCEPT ![u] = slid]
                /\ \A t \in clock .. (clock + config.session_timeout) :
                     SlotValid(slid, t)
                /\ ~SlotValid(slid, clock + config.session_timeout + 1)
       /\ \A i \in Slots :
            auth_data[i].used /\ auth_data'[i].used
                /\ auth_data'[i].sid = auth_data[i].sid
            => /\ auth_data[i].tls_mixed => auth_data'[i].tls_mixed
               /\ \/ auth_data'[i].valid_until = auth_data[i].valid_until
                  \/ Checks /\ last'.cuid = i]_vars

\* C6 witness: a session that was used over both TLS states is authenticated
\* again over the TLS state of its login, after the clock advanced, while
\* another session exists: tls.mixed is still true and valid_until slid.
C6_Witness ==
    /\ last.op = "api_queries"
    /\ last.cuid > API_AUTH_UNAUTHORIZED
    /\ auth_data[last.cuid].tls_mixed
    /\ auth_data[last.cuid].tls_login = last.is_ssl
    /\ auth_data[last.cuid].login_at < clock
    /\ auth_data[last.cuid].valid_until = clock + config.session_timeout
    /\ \E i \in Slots : i # last.cuid /\ auth_data[i].used

\* C7: DELETE /api/auth from a client with a valid session zeroes exactly
\* that client's slot, answers 410 with the cookie-deleting header and leaves
\* all other slots unchanged; afterwards no slot authenticates the old SID.
C7_LogoutRevokesSid ==
    [][Handles("api_auth") /\ last'.method = HTTP_DELETE
         /\ last'.cuid > API_AUTH_UNAUTHORIZED
        => /\ last'.code = 410
           /\ last'.cookie = "delete"
           /\ auth_data' = [auth_data EXCEPT ![last'.cuid] = ZeroSession]
           /\ \A i \in Slots : ~Holds(auth_data'[i], last')]_vars

\* C8: with a pwhash configured, a POST /api/auth with a wrong password,
\* whatever SID, cookie or headers it carries, never yields HTTP 200 and never
\* creates a session.
C8_WrongPasswordNever200 ==
    [][Handles("api_auth") /\ last'.method = HTTP_POST /\ config.pwhash # ""
         /\ last'.result = PASSWORD_INCORRECT
        => /\ last'.code # 200
           /\ last'.slot = API_MAX_CLIENTS
           /\ \A i \in Slots : auth_data'[i].used => auth_data[i].used]_vars

\* C9: with an empty pwhash, a POST /api/auth with a password gets HTTP 200
\* with session.valid = true and sid = null, whatever verify_login returns,
\* and no slot is allocated or modified.
C9_EmptyPwhashBypassesSlots ==
    [][Handles("api_auth") /\ last'.method = HTTP_POST /\ config.pwhash = ""
         /\ last'.pwsrc = "json"
        => /\ last'.code = 200
           /\ last'.valid
           /\ last'.rsid = NoSid
           /\ auth_data' = auth_data]_vars

-----------------------------------------------------------------------------
(* The sources of the SID: requests that carry a SID in several places at
   once (form body, JSON body, sid header, X-FTL-SID header, cookie). *)

\* mg_get_header(conn, "sid") != NULL || mg_get_header(conn, "X-FTL-SID") != NULL:
\* the sid header is read first, X-FTL-SID only when it is absent.
SidHeader(sid, x_ftl_sid) == IF sid # NoSid THEN sid ELSE x_ftl_sid

\* What a source may hold: nothing, or one of the tokens a login hands out.
SourceSids == {NoSid} \cup (1 .. MaxRng)

\* The places of a request that may hold a SID, and its X-CSRF-TOKEN header.
\* A form field may be empty; a JSON sid that is not a string counts as absent.
SidSources ==
    [form_sid : SourceSids \cup {EmptySid}, json_sid : SourceSids,
     sid : SourceSids, x_ftl_sid : SourceSids, cookie_sid : SourceSids,
     csrf_header : SourceSids]

\* The request built from the sources src, sent from address a.
SourcesRequest(a, src) ==
    [Request(HTTP_GET, a, FALSE,
             [header_sid |-> SidHeader(src.sid, src.x_ftl_sid),
              cookie_sid |-> src.cookie_sid, csrf_header |-> src.csrf_header],
             NoBody)
     EXCEPT !.payload_avail = (src.form_sid # NoSid \/ src.json_sid # NoSid),
            !.form_sid = src.form_sid,
            !.json = (src.json_sid # NoSid),
            !.json_sid = src.json_sid]

\* check_client_auth runs on a request that may carry a SID in every place,
\* for /api/auth (is_api false) or for another endpoint (is_api true).
CheckClientAuth ==
    /\ last = Idle
    /\ \E a \in RemoteAddrs, src \in SidSources, is_api \in BOOLEAN :
        LET c == check_client_auth(auth_data, SourcesRequest(a, src), is_api, clock)
        IN  /\ auth_data' = c.ad
            /\ last' = [op |-> "check_client_auth", remote_addr |-> a, src |-> src,
                        is_api |-> is_api, uid |-> c.uid]
            /\ UNCHANGED <<clock, rng, config, wk>>
            /\ UNCHANGED corevars

NextSid ==
    \/ Tick
    \/ ApiAuth
    \/ CheckClientAuth
    \/ Respond

SpecSid == InitPw /\ [][NextSid]_vars

\* The sources of a request in the order of their priority: is a SID supplied,
\* which one, and is it the cookie.
Supplied(src) ==
    <<[present |-> src.form_sid # NoSid /\ src.form_sid # EmptySid, sid |-> src.form_sid],
      [present |-> src.json_sid # NoSid, sid |-> src.json_sid],
      [present |-> src.sid # NoSid, sid |-> src.sid],
      [present |-> src.x_ftl_sid # NoSid, sid |-> src.x_ftl_sid],
      [present |-> src.cookie_sid # NoSid, sid |-> src.cookie_sid]>>

\* The valid sessions of address a with SID sid.
SessionsOf(ad, a, sid) ==
    {i \in Slots : SlotValid(ad[i], clock) /\ ad[i].remote_addr = a /\ ad[i].sid = sid}

C12_CookieMaxAgeIsTimeout ==
    [][/\ Handles("api_queries") /\ last'.cuid > API_AUTH_UNAUTHORIZED =>
            /\ last'.hdr_sid = auth_data'[last'.cuid].sid
            /\ last'.max_age = config.session_timeout
            /\ auth_data'[last'.cuid].valid_until = clock + last'.max_age
       /\ Handles("api_auth") /\ last'.code = 200 /\ last'.uid > API_AUTH_UNAUTHORIZED =>
            /\ last'.hdr_sid = auth_data'[last'.uid].sid
            /\ last'.max_age = config.session_timeout
            /\ auth_data'[last'.uid].valid_until = clock + last'.max_age
       /\ Handles("api_auth") /\ last'.code = 410 => last'.max_age = 0
       /\ Handles("api_auth") /\ last'.code = 401 /\ last'.totp # "rejected" =>
            last'.max_age = 0]_vars

-----------------------------------------------------------------------------
(* The garbage collector at work: queries are admitted to the ring, seconds
   pass, and runGC runs, periodically or on request (doGC, or a flush). *)

\* capacity of the ring of queries
MaxQueries == 2
\* the time at which the housekeeper stops
MaxGcTime == 6
\* how far the timestamp of a new query may lie behind the clock
MaxSkew == 1

\* the configuration items the garbage collector reads
GcConfig == [maxHistory |-> MaxHistory]

\* the record of the step taken last
CoreOp(op) == [op |-> op, flush |-> FALSE, mintime |-> 0, removed |-> 0]

InitGC ==
    /\ auth_data = [i \in Slots |-> ZeroSession]
    /\ clock = MaxHistory
    /\ rng = 0
    /\ config = GcConfig
    /\ last = CoreOp("start")
    /\ wk = NoWorkers
    /\ NoCore

\* thread_sleepms(GC, 1000): a second passes.
Sleep ==
    /\ clock < MaxGcTime
    /\ clock' = clock + 1
    /\ last' = CoreOp("sleep")
    /\ UNCHANGED <<auth_data, rng, config, wk>>
    /\ UNCHANGED corevars

\* A query is admitted to the ring: it is counted once in counters.queries,
\* once under its type and once under its status.
NewQuery ==
    /\ counters.queries < MaxQueries
    /\ \E ts \in (clock - MaxSkew) .. clock, type \in Types, status \in Statuses :
        /\ ts >= MaxHistory
        /\ counters.querytype[type] < MaxQueries
        /\ counters.status[status] < MaxQueries
        /\ queries' = Append(queries, [timestamp |-> ts, type |-> type, status |-> status])
        /\ counters' = [counters EXCEPT !.queries = @ + 1,
                                        !.querytype[type] = @ + 1,
                                        !.status[status] = @ + 1]
    /\ last' = CoreOp("new_query")
    /\ UNCHANGED <<auth_data, clock, rng, config, wk, clients, lastRateLimitCleaner, db>>
    /\ UNCHANGED logvars

\* runGC(now, &lastGCrun, flush) with now = time(NULL).
RunGC(flush) ==
    /\ LET r == runGC(queries, counters, clock, flush)
       IN  /\ queries' = r.queries
           /\ counters' = r.counters
           /\ last' = [op |-> "runGC", flush |-> flush, mintime |-> r.mintime,
                       removed |-> r.removed]
    /\ UNCHANGED <<auth_data, clock, rng, config, wk, clients, lastRateLimitCleaner, db>>
    /\ UNCHANGED logvars

NextGC ==
    \/ Sleep
    \/ NewQuery
    \/ \E flush \in BOOLEAN : RunGC(flush)

SpecGC == InitGC /\ [][NextGC]_vars

\* The queries of ring qs with a timestamp above mintime, in ring order.
Newer(qs, mintime) == SelectSeq(qs, LAMBDA q : q.timestamp > mintime)

\* The sum of the counters f over the set S of its keys.
RECURSIVE Sum(_, _)
Sum(f, S) ==
    IF S = {} THEN 0
    ELSE LET x == CHOOSE y \in S : TRUE IN f[x] + Sum(f, S \ {x})

\* C13: after a non-flush runGC(now), whatever the ring held, no query left in
\* the ring has timestamp <= mintime = align(now - maxHistory, GCinterval),
\* and no query with a larger timestamp has been removed: the ring holds
\* exactly the queries that had a timestamp above mintime.
C13_GcRemovesExactlyOld ==
    [][RunGC(FALSE) =>
        LET mintime == clock - config.maxHistory - ((clock - config.maxHistory) % GCinterval)
        IN  /\ \A k \in 1 .. Len(queries') : queries'[k].timestamp > mintime
            /\ queries' = Newer(queries, mintime)
            /\ counters'.queries = Len(queries')]_vars

\* C14: runGC preserves the counter invariants: when the status counters and
\* the type counters each add up to counters.queries before the run, they do
\* after it, and each removed query lowers counters.queries, the status sum
\* and the type sum by one.
C14_GcPreservesCounterSums ==
    [][(\E flush \in BOOLEAN : RunGC(flush))
         /\ Sum(counters.status, Statuses) = counters.queries
         /\ Sum(counters.querytype, Types) = counters.queries =>
        /\ Sum(counters'.status, Statuses) = counters'.queries
        /\ Sum(counters'.querytype, Types) = counters'.queries
        /\ counters'.queries = counters.queries - last'.removed
        /\ Sum(counters'.status, Statuses) = Sum(counters.status, Statuses) - last'.removed
        /\ Sum(counters'.querytype, Types) = Sum(counters.querytype, Types) - last'.removed]_vars

-----------------------------------------------------------------------------
(* The rate limiter: the housekeeper resets the rate windows of the clients
   (reset_rate_limiting, GC_thread), queries of the clients are counted and
   refused, and get_rate_limit_turnaround tells how long a client stays
   limited. *)

\* number of clients (counters->clients)
MaxClients == 2
\* dns.rateLimit.count and dns.rateLimit.interval of the configuration
RateLimitCount == 2
RateLimitInterval == 2
\* the number of queries of one client counted in one window
MaxRateCount == 5
\* the time at which the housekeeper stops
MaxRateTime == 6

ClientIDs == 0 .. (MaxClients - 1)

\* (unsigned int)x of C for |x| < 2^31: a negative value wraps to one of at
\* least 2^31, which is written as the largest number the checker handles.
ToUInt(x) == IF x >= 0 THEN x ELSE 2147483647

\* a client that sent nothing; fresh: the client was limited in this window
ZeroClient == [rate_limit |-> 0, rate_limited |-> FALSE, fresh |-> FALSE]

\* Mutant: the reset compares with >= where the code compares with >.
reset_client_AtLimit(client) ==
    [client EXCEPT !.rate_limited = client.rate_limited
                                    /\ client.rate_limit >= config.rate_limit_count,
                   !.rate_limit = 0,
                   !.fresh = FALSE]

\* reset_rate_limiting(): the body of the loop, for one client.
reset_client(client) ==
    [client EXCEPT !.rate_limited = IF client.rate_limited
                                    THEN client.rate_limit > config.rate_limit_count
                                    ELSE client.rate_limited,
                   !.rate_limit = 0,
                   !.fresh = FALSE]

\* reset_rate_limiting(): every client.
reset_rate_limiting(cl) == [clientID \in DOMAIN cl |-> reset_client(cl[clientID])]

\* Mutant: the number of intervals is rounded up.
get_rate_limit_turnaround_Ceil(rate_limit_count, now, lastCleaner) ==
    LET how_often == (rate_limit_count + config.rate_limit_count - 1)
                     \div config.rate_limit_count
    IN  config.rate_limit_interval * how_often - (now - lastCleaner)

\* get_rate_limit_turnaround(): seconds until the rate-limiting interval is over.
get_rate_limit_turnaround(rate_limit_count, now, lastCleaner) ==
    LET how_often == ToUInt(rate_limit_count \div config.rate_limit_count)
    IN  config.rate_limit_interval * how_often - (now - lastCleaner)

\* Mutant: a query is refused only from the second one above the limit on.
Refused_Late(n, client) ==
    config.rate_limit_count > 0
    /\ (n > config.rate_limit_count + 1 \/ client.rate_limited)

\* Is the n-th query of the window of this client refused?
Refused(n, client) ==
    config.rate_limit_count > 0
    /\ (n > config.rate_limit_count \/ client.rate_limited)

\* GC_thread: is the reset of the rate windows due at time now?
ResetDue(now) ==
    /\ config.rate_limit_interval > 0
    /\ ToUInt(now - lastRateLimitCleaner) >= config.rate_limit_interval

\* the record of the step taken last
RateOp(op, clientID, refused, turnaround, reset) ==
    [op |-> op, client |-> clientID, refused |-> refused, turnaround |-> turnaround,
     reset |-> reset]

\* the configurations of the rate limiter: limiting with a window, and a
\* configuration without window (interval 0)
RateConfigs ==
    {[rate_limit_count |-> RateLimitCount, rate_limit_interval |-> i] :
        i \in {0, RateLimitInterval}}

\* The state the housekeeper starts with: lastRateLimitCleaner = time(NULL).
InitRateWith(configs, t0) ==
    /\ auth_data = [i \in Slots |-> ZeroSession]
    /\ clock = t0
    /\ rng = 0
    /\ config \in configs
    /\ last = RateOp("start", -1, FALSE, 0, FALSE)
    /\ wk = NoWorkers
    /\ queries = <<>>
    /\ counters = ZeroCounters
    /\ clients = [clientID \in ClientIDs |-> ZeroClient]
    /\ lastRateLimitCleaner = t0
    /\ db = NoDb
    /\ NoLog

InitRate == InitRateWith(RateConfigs, 0)

\* One round of the loop of GC_thread: the thread has slept a second, reads
\* the time and resets the rate windows when the interval has passed.
Housekeeping(tmax) ==
    /\ clock < tmax
    /\ clock' = clock + 1
    /\ IF ResetDue(clock')
       THEN /\ lastRateLimitCleaner' = clock'
            /\ clients' = reset_rate_limiting(clients)
            /\ last' = RateOp("housekeeping", -1, FALSE, 0, TRUE)
       ELSE /\ UNCHANGED <<clients, lastRateLimitCleaner>>
            /\ last' = RateOp("housekeeping", -1, FALSE, 0, FALSE)
    /\ UNCHANGED <<auth_data, rng, config, wk, queries, counters, db>>
    /\ UNCHANGED logvars

\* A query of client clientID arrives: it is counted; it is refused when the
\* count of the window exceeds the limit or the client is limited already; the
\* first refused query limits the client for the turnaround computed.
ClientQuery(clientID, cmax) ==
    /\ clients[clientID].rate_limit < cmax
    /\ LET client == clients[clientID]
           n == client.rate_limit + 1
           refused == Refused(n, client)
           first == refused /\ ~client.rate_limited
       IN  /\ clients' = [clients EXCEPT ![clientID] =
                            [rate_limit |-> n,
                             rate_limited |-> client.rate_limited \/ refused,
                             fresh |-> client.fresh \/ first]]
           /\ last' = RateOp("query", clientID, refused,
                             IF first
                             THEN get_rate_limit_turnaround(n, clock, lastRateLimitCleaner)
                             ELSE 0,
                             FALSE)
    /\ UNCHANGED <<auth_data, clock, rng, config, wk, queries, counters,
                   lastRateLimitCleaner, db>>
    /\ UNCHANGED logvars

NextRate ==
    \/ Housekeeping(MaxRateTime)
    \/ \E clientID \in ClientIDs : ClientQuery(clientID, MaxRateCount)

SpecRate == InitRate /\ [][NextRate]_vars

\* A step in which the housekeeper resets the rate windows.
ResetStep == clock' # clock /\ last'.op = "housekeeping" /\ last'.reset

\* C15: a client that exceeded the query count is limited until the end of
\* the current interval: the flag stays up to the next reset; at the first
\* reset after the client was limited the flag is cleared if it sent nothing
\* more; at a later reset the flag stays if the client sent more than the
\* limit in the window that ends, and is cleared if it sent no more than the
\* limit.
C15_LimitedUntilWindowEnd ==
    [][\A c \in ClientIDs :
        clients[c].rate_limited =>
          /\ ~ResetStep => clients'[c].rate_limited
          /\ ResetStep /\ clients[c].fresh
               /\ clients[c].rate_limit = config.rate_limit_count + 1 =>
                 ~clients'[c].rate_limited
          /\ ResetStep /\ ~clients[c].fresh
               /\ clients[c].rate_limit > config.rate_limit_count =>
                 clients'[c].rate_limited
          /\ ResetStep /\ ~clients[c].fresh
               /\ clients[c].rate_limit <= config.rate_limit_count =>
                 ~clients'[c].rate_limited]_vars

-----------------------------------------------------------------------------
(* get_rate_limit_turnaround on its own: any limit above 0, any interval,
   any count, any time since the last reset. *)

\* largest dns.rateLimit.count and dns.rateLimit.interval tried
MaxLimit == 3
MaxInterval == 3
\* largest time since the last reset of the rate windows
MaxElapsed == 3

TurnaroundConfigs ==
    {[rate_limit_count |-> l, rate_limit_interval |-> i] :
        l \in 1 .. MaxLimit, i \in 0 .. MaxInterval}

InitTurnaround ==
    /\ auth_data = [i \in Slots |-> ZeroSession]
    /\ clock \in 0 .. MaxElapsed
    /\ rng = 0
    /\ config \in TurnaroundConfigs
    /\ last = [op |-> "start", rate_limit_count |-> 0, turnaround |-> 0]
    /\ wk = NoWorkers
    /\ queries = <<>>
    /\ counters = ZeroCounters
    /\ clients = [clientID \in ClientIDs |-> ZeroClient]
    /\ lastRateLimitCleaner \in 0 .. clock
    /\ db = NoDb
    /\ NoLog

\* get_rate_limit_turnaround(rate_limit_count) is called.
GetRateLimitTurnaround ==
    /\ \E c \in 0 .. MaxRateCount :
         last' = [op |-> "get_rate_limit_turnaround", rate_limit_count |-> c,
                  turnaround |-> get_rate_limit_turnaround(c, clock, lastRateLimitCleaner)]
    /\ UNCHANGED <<auth_data, clock, rng, config, wk>>
    /\ UNCHANGED corevars

NextTurnaround == GetRateLimitTurnaround

SpecTurnaround == InitTurnaround /\ [][NextTurnaround]_vars

\* floor(c / limit) and ceil(c / limit) by their defining inequalities
Floor(c, limit) == CHOOSE k \in 0 .. c : k * limit <= c /\ c < (k + 1) * limit
Ceil(c, limit) == CHOOSE k \in 0 .. c : (k - 1) * limit < c /\ c <= k * limit

\* C17 as stated: for every count c >= 0 and limit > 0,
\* get_rate_limit_turnaround(c) returns
\* interval * ceil(c / limit) - (now - lastRateLimitCleaner).
C17_TurnaroundCeil ==
    last.op = "get_rate_limit_turnaround" =>
        last.turnaround =
            config.rate_limit_interval * Ceil(last.rate_limit_count, config.rate_limit_count)
            - (clock - lastRateLimitCleaner)

\* C17 amended: for every count c >= 0 and limit > 0,
\* get_rate_limit_turnaround(c) returns
\* interval * floor(c / limit) - (now - lastRateLimitCleaner).
C17_TurnaroundFloor ==
    last.op = "get_rate_limit_turnaround" =>
        last.turnaround =
            config.rate_limit_interval * Floor(last.rate_limit_count, config.rate_limit_count)
            - (clock - lastRateLimitCleaner)

\* C17 witness: the turnaround of a count above the limit that is no multiple
\* of it, some time after the last reset.
C17_Witness ==
    /\ last.op = "get_rate_limit_turnaround"
    /\ last.rate_limit_count > config.rate_limit_count
    /\ last.rate_limit_count % config.rate_limit_count # 0
    /\ config.rate_limit_interval > 0
    /\ clock > lastRateLimitCleaner
    /\ last.turnaround > 0

-----------------------------------------------------------------------------
(* The rate limiter with dns.rateLimit.count = 5 and dns.rateLimit.interval
   = 60: clients send up to seven queries per window, over two windows. *)

RateScenario == [rate_limit_count |-> 5, rate_limit_interval |-> 60]

InitRateScenario == InitRateWith({RateScenario}, 0)

NextRateScenario ==
    \/ Housekeeping(2 * RateScenario.rate_limit_interval)
    \/ \E clientID \in ClientIDs : ClientQuery(clientID, RateScenario.rate_limit_count + 2)

SpecRateScenario == InitRateScenario /\ [][NextRateScenario]_vars

-----------------------------------------------------------------------------
(* GET /api/queries (src/src/api/queries.c): the rows of the table queries
   are read by descending id and paged in the handler by cursor, start and
   length. The table is the variable queries, one row per stored query, in
   the order of the ids; of the filters, the one on the query type is kept. *)

\* largest number of stored queries
MaxRows == 3
\* largest start and largest positive length a request asks for
MaxStart == 2
MaxLength == 2
\* largest draw counter a request sends
MaxDraw == 1
\* the number of queries sent unless the request asks for another one
DefaultLength == 100

\* A parameter of the query string is the set of its values: empty when the
\* query string does not hold the parameter, of one value when it does.
NoParam == {}
Param(v) == {v}

\* get_int_var(), get_uint_var(), get_string_var(): the value of a parameter
\* that is there, the value the variable has been set to otherwise.
get_var(param, default) == IF param = NoParam THEN default ELSE CHOOSE v \in param : TRUE

\* no filter on the query type
AnyType == "<any>"
\* a type name that is no query type
BadType == "TYPE_BOGUS"

\* db_counts(): the largest id of the table
largest_db_index(qs) == IF qs = <<>> THEN 0 ELSE qs[Len(qs)].id

\* The rows the statement returns: WHERE type = :type, ORDER BY id DESC.
RECURSIVE SelectRows(_, _, _)
SelectRows(qs, k, type) ==
    IF k = 0 THEN <<>>
    ELSE IF type = AnyType \/ qs[k].type = type
    THEN <<qs[k]>> \o SelectRows(qs, k - 1, type)
    ELSE SelectRows(qs, k - 1, type)

\* Have as many rows been added as the request asked for?
LengthReached(length, added) == length > 0 /\ added >= length

\* Is the row above the cursor (the static tip of the table)?
AboveCursor(id, cursor) == id > cursor

\* The loop over the rows of the statement, from row k on: the ids added to
\* the response and the number of rows seen.
RECURSIVE ServeRows(_, _, _, _, _, _, _)
ServeRows(rows, k, cursor, start, length, records, added) ==
    IF k > Len(rows)
    THEN [queries |-> added, records |-> records]
    ELSE LET id == rows[k].id
             rec == records + 1
         IN  IF AboveCursor(id, cursor)
             THEN ServeRows(rows, k + 1, cursor, start, length, rec, added)
             ELSE IF start > 0 /\ start >= rec
             THEN ServeRows(rows, k + 1, cursor, start, length, rec, added)
             ELSE IF LengthReached(length, Len(added))
             THEN ServeRows(rows, k + 1, cursor, start, length, rec, added)
             ELSE ServeRows(rows, k + 1, cursor, start, length, rec, Append(added, id))

\* The response to a request that is refused.
QueriesError(code) ==
    [code |-> code, queries |-> <<>>, cursor |-> -1, recordsFiltered |-> 0, draw |-> 0]

\* api_queries() for an authenticated client on the table qs; req holds the
\* parameters type, cursor, start, length and draw of the query string.
api_queries(qs, req) ==
    LET largest == largest_db_index(qs)
        draw == get_var(req.draw, 0)
        length == get_var(req.length, DefaultLength)
        start == get_var(req.start, 0)
        cursor_set == req.cursor # NoParam
        cursor == get_var(req.cursor, largest)
        type == get_var(req.type, AnyType)
    IN  IF cursor_set /\ cursor > largest
        THEN QueriesError(400)
        ELSE IF type # AnyType /\ type \notin Types
        THEN QueriesError(400)
        ELSE LET rows == SelectRows(qs, Len(qs), type)
                 r == ServeRows(rows, 1, cursor, start, length, 0, <<>>)
                 firstID == IF rows = <<>> THEN -1 ELSE rows[1].id
             IN  [code |-> 200, queries |-> r.queries,
                  cursor |-> IF cursor_set THEN cursor ELSE firstID,
                  recordsFiltered |-> r.records, draw |-> draw]

\* The requests: any combination of the parameters.
QueriesRequests ==
    [type : {NoParam, Param(TYPE_A), Param(BadType)},
     cursor : {NoParam} \cup {Param(v) : v \in 0 .. MaxRows},
     start : {NoParam} \cup {Param(v) : v \in 1 .. MaxStart},
     length : {NoParam} \cup {Param(v) : v \in -1 .. MaxLength},
     draw : {NoParam} \cup {Param(v) : v \in 1 .. MaxDraw}]

\* No request has been answered.
NoQueriesRequest ==
    [op |-> "start",
     req |-> [type |-> NoParam, cursor |-> NoParam, start |-> NoParam,
              length |-> NoParam, draw |-> NoParam],
     resp |-> QueriesError(0)]

InitQueries ==
    /\ auth_data = [i \in Slots |-> ZeroSession]
    /\ clock = 0
    /\ rng = 0
    /\ config = Config("", "", "", "", TRUE, FALSE)
    /\ last = NoQueriesRequest
    /\ wk = NoWorkers
    /\ NoCore

\* A query is stored in the table under the next id.
StoreQuery ==
    /\ Len(queries) < MaxRows
    /\ \E type \in Types :
         queries' = Append(queries, [id |-> largest_db_index(queries) + 1, type |-> type])
    /\ UNCHANGED <<auth_data, clock, rng, config, last, wk, counters, clients,
                   lastRateLimitCleaner, db>>
    /\ UNCHANGED logvars

\* GET /api/queries: the client is let in (no password is set) and gets the
\* page it asked for.
ApiQueries ==
    /\ \E req \in QueriesRequests :
         /\ check_client_auth(auth_data, NoRequest, TRUE, clock).uid # API_AUTH_UNAUTHORIZED
         /\ last' = [op |-> "api_queries", req |-> req, resp |-> api_queries(queries, req)]
    /\ UNCHANGED <<auth_data, clock, rng, config, wk>>
    /\ UNCHANGED corevars

NextQueries ==
    \/ StoreQuery
    \/ ApiQueries

SpecQueries == InitQueries /\ [][NextQueries]_vars

\* The ids of the rows of qs of type type (any type for AnyType) with an id
\* of at most cursor, by descending id.
RECURSIVE MatchingIds(_, _, _, _)
MatchingIds(qs, k, type, cursor) ==
    IF k = 0 THEN <<>>
    ELSE IF (type = AnyType \/ qs[k].type = type) /\ qs[k].id <= cursor
    THEN <<qs[k].id>> \o MatchingIds(qs, k - 1, type, cursor)
    ELSE MatchingIds(qs, k - 1, type, cursor)

\* C19: for fixed filters, cursor c, start and length the rows returned
\* depend only on the stored queries with id <= c: a request that repeats
\* the parameters of the request answered before it, with queries stored in
\* between, gets the same rows.
C19_CursorPagesAreStable ==
    [][(/\ last.op = "api_queries" /\ last'.op = "api_queries"
        /\ last'.req = last.req
        /\ last.req.cursor # NoParam
        /\ last.resp.code = 200) =>
           /\ last'.resp.code = 200
           /\ last'.resp.queries = last.resp.queries]_vars

\* C20: a response holds at most length rows when length > 0, every matching
\* row when length = -1, and no row when length = 0; the draw counter of the
\* request is echoed.
C20_LengthLimitsRows ==
    [][(last'.op = "api_queries" /\ last'.resp.code = 200 /\ last' # last) =>
        LET req == last'.req
            cursor == get_var(req.cursor, largest_db_index(queries))
            matching == MatchingIds(queries, Len(queries),
                                    get_var(req.type, AnyType), cursor)
        IN  /\ (\E n \in 1 .. MaxLength : req.length = Param(n)) =>
                 Len(last'.resp.queries) <= get_var(req.length, 0)
            /\ (req.length = Param(-1) /\ req.start = NoParam) =>
                 last'.resp.queries = matching
            /\ req.length = Param(0) => last'.resp.queries = <<>>
            /\ req.draw # NoParam => last'.resp.draw = get_var(req.draw, 0)]_vars

\* C21: the cursor of the response is the cursor of the request when there
\* is one, and the id of the first row of the response otherwise, whatever
\* start and the filters are; the request repeated with the cursor of the
\* response gets the same rows.
C21_CursorIsFirstEmittedRow ==
    [][(last'.op = "api_queries" /\ last'.resp.code = 200 /\ last' # last) =>
        /\ last'.req.cursor # NoParam =>
             last'.resp.cursor = get_var(last'.req.cursor, -1)
        /\ (last'.req.cursor = NoParam /\ last'.resp.queries # <<>>) =>
             last'.resp.cursor = last'.resp.queries[1]
        /\ (/\ last.op = "api_queries" /\ last.resp.code = 200
            /\ last.req.cursor = NoParam
            /\ last'.req = [last.req EXCEPT !.cursor = Param(last.resp.cursor)]) =>
             last'.resp.queries = last.resp.queries]_vars

-----------------------------------------------------------------------------
(* The handlers of GET /api/queries and GET /api/queries/suggestions as
   sequences of calls (src/src/api/queries.c): each handler is run from its
   entry to its return, the calls it makes on the lock, the database handle
   and the connection are kept in the order in which it makes them, and the
   database handle is what these calls leave behind. The calls that can fail
   (get_memdb, attach_disk_database, sqlite3_prepare_v2, sqlite3_bind_*,
   sqlite3_step, detach_disk_database) fail when the step says so. *)

\* largest number of stored queries, of statements left open and largest
\* count a request for suggestions asks for
MaxApiRows == 2
MaxOpenStmts == 2
MaxCount == 4
\* the number of suggestions sent unless the request asks for another one
DefaultCount == 10

\* misc.privacylevel: nothing is hidden, everything is hidden
PRIVACY_SHOW_ALL == 0
PRIVACY_MAXIMUM == 3

\* The calls of a handler.
LockShm == "lock_shm"
UnlockShm == "unlock_shm"
Attach == "attach_disk_database"
Detach == "detach_disk_database"
Prepare == "sqlite3_prepare_v2"
Finalize == "sqlite3_finalize"
Send == "send"

\* The database handle after the calls of trace, one after the other.
RECURSIVE AfterCalls(_, _, _)
AfterCalls(d, trace, k) ==
    IF k > Len(trace) THEN d
    ELSE LET c == trace[k]
             n == IF c = LockShm THEN [d EXCEPT !.locks = @ + 1]
                  ELSE IF c = UnlockShm THEN [d EXCEPT !.locks = @ - 1]
                  ELSE IF c = Attach THEN [d EXCEPT !.attached = TRUE]
                  ELSE IF c = Detach THEN [d EXCEPT !.attached = FALSE]
                  ELSE IF c = Prepare THEN [d EXCEPT !.stmts = @ + 1]
                  ELSE IF c = Finalize THEN [d EXCEPT !.stmts = @ - 1]
                  ELSE d
         IN  AfterCalls(n, trace, k + 1)

\* The run of a handler: the response and the calls made.
Run(resp, trace) == [resp |-> resp, trace |-> trace]

\* The response of api_queries when privacylevel is at its maximum:
\* {"queries": [], "cursor": null}.
PrivacyResponse ==
    [code |-> 200, queries |-> <<>>, cursor |-> -1, recordsFiltered |-> 0, draw |-> 0]

\* What can fail in api_queries.
QueriesFaults == [attach : BOOLEAN, prepare : BOOLEAN, bind : BOOLEAN, detach : BOOLEAN]

\* api_queries() from entry to return; uid is what check_client_auth gives,
\* req holds the parameters (disk among them), f says which calls fail.
api_queries_run(qs, uid, req, f) ==
    LET largest == largest_db_index(qs)
        cursor_bad == req.cursor # NoParam /\ get_var(req.cursor, 0) > largest
        type == get_var(req.type, AnyType)
        att == IF req.disk THEN <<Attach>> ELSE <<>>
    IN  IF config.privacylevel >= PRIVACY_MAXIMUM
        THEN Run(PrivacyResponse, <<Send>>)
        ELSE IF uid = API_AUTH_UNAUTHORIZED
        THEN Run(QueriesError(401), <<Send>>)
        ELSE IF cursor_bad
        THEN Run(QueriesError(400), <<LockShm, UnlockShm, Send>>)
        ELSE IF req.disk /\ f.attach
        THEN Run(QueriesError(500), <<LockShm, UnlockShm, Send>>)
        ELSE IF f.prepare
        THEN Run(QueriesError(500), <<LockShm>> \o att \o <<UnlockShm, Send>>)
        ELSE IF type # AnyType /\ type \in Types /\ f.bind
        THEN Run(QueriesError(500),
                 <<LockShm>> \o att \o <<Prepare, Finalize, UnlockShm, Send>>)
        ELSE IF type # AnyType /\ type \notin Types
        THEN Run(QueriesError(400), <<LockShm>> \o att \o <<Prepare, UnlockShm, Send>>)
        ELSE IF req.disk /\ f.detach
        THEN Run(QueriesError(500), <<LockShm>> \o att \o <<Prepare, UnlockShm, Send>>)
        ELSE Run(api_queries(qs, req),
                 <<LockShm>> \o att \o <<Prepare>>
                 \o (IF req.disk THEN <<Detach>> ELSE <<>>) \o <<Send, UnlockShm>>)

\* C division by two: the quotient is truncated towards zero.
Half(count) == IF count >= 0 THEN count \div 2 ELSE -((-count) \div 2)

\* The loop of add_strings_to_array from row k on.
RECURSIVE CopyRows(_, _, _, _, _)
CopyRows(rows, k, counter, max_count, array) ==
    IF k > Len(rows) THEN array
    ELSE IF max_count < 0
    THEN CopyRows(rows, k + 1, counter, max_count, Append(array, rows[k]))
    ELSE IF counter + 1 < max_count
    THEN CopyRows(rows, k + 1, counter + 1, max_count, Append(array, rows[k]))
    ELSE array

\* What can fail in add_strings_to_array.
NoFault == "none"
ArrayFaults == {"get_memdb", "sqlite3_prepare_v2", "sqlite3_step"}

\* add_strings_to_array(): rc, the array and the calls made.
add_strings_to_array(array, rows, max_count, fault) ==
    IF fault = "get_memdb"
    THEN [rc |-> 500, array |-> array, trace |-> <<Send>>]
    ELSE IF fault = "sqlite3_prepare_v2"
    THEN [rc |-> 500, array |-> array, trace |-> <<Send>>]
    ELSE IF fault = "sqlite3_step"
    THEN [rc |-> 500, array |-> array, trace |-> <<Prepare, Finalize, Send>>]
    ELSE [rc |-> 0, array |-> CopyRows(rows, 1, 0, max_count, array),
          trace |-> <<Prepare, Finalize>>]

\* The values of field of the rows of qs, each one once, in the order in
\* which they were stored: the tables domain_by_id, client_by_id and
\* forward_by_id.
RECURSIVE Distinct(_, _, _)
Distinct(vals, k, acc) ==
    IF k > Len(vals) THEN acc
    ELSE IF \E j \in 1 .. Len(acc) : acc[j] = vals[k]
    THEN Distinct(vals, k + 1, acc)
    ELSE Distinct(vals, k + 1, Append(acc, vals[k]))

DomainById(qs) == Distinct([k \in 1 .. Len(qs) |-> qs[k].domain], 1, <<>>)
ClientIPs(qs) == Distinct([k \in 1 .. Len(qs) |-> qs[k].client], 1, <<>>)
ClientNames(qs) == Distinct([k \in 1 .. Len(qs) |-> qs[k].name], 1, <<>>)
ForwardById(qs) == Distinct([k \in 1 .. Len(qs) |-> qs[k].forward], 1, <<>>)

\* The response to a request for suggestions that is refused.
SuggestionsError(code) ==
    [code |-> code, domain |-> <<>>, client |-> <<>>, upstream |-> <<>>]

\* api_queries_suggestions() from entry to return; fault.call is the call of
\* add_strings_to_array that fails (none for 0) and fault.what how.
api_queries_suggestions_run(qs, uid, req, fault) ==
    LET count == get_var(req.count, DefaultCount)
        F(n) == IF fault.call = n THEN fault.what ELSE NoFault
        d == add_strings_to_array(<<>>, DomainById(qs), count, F(1))
        ci == add_strings_to_array(<<>>, ClientIPs(qs), Half(count), F(2))
        cn == add_strings_to_array(ci.array, ClientNames(qs), Half(count), F(3))
        u == add_strings_to_array(<<>>, ForwardById(qs), count, F(4))
    IN  IF uid = API_AUTH_UNAUTHORIZED
        THEN Run(SuggestionsError(401), <<Send>>)
        ELSE IF d.rc # 0
        THEN Run(SuggestionsError(d.rc), <<LockShm>> \o d.trace \o <<UnlockShm>>)
        ELSE IF ci.rc # 0
        THEN Run(SuggestionsError(ci.rc),
                 <<LockShm>> \o d.trace \o ci.trace \o <<UnlockShm>>)
        ELSE IF cn.rc # 0
        THEN Run(SuggestionsError(cn.rc),
                 <<LockShm>> \o d.trace \o ci.trace \o cn.trace \o <<UnlockShm>>)
        ELSE IF u.rc # 0
        THEN Run(SuggestionsError(u.rc),
                 <<LockShm>> \o d.trace \o ci.trace \o cn.trace \o u.trace
                 \o <<UnlockShm>>)
        ELSE Run([code |-> 200, domain |-> d.array, client |-> cn.array,
                  upstream |-> u.array],
                 <<LockShm>> \o d.trace \o ci.trace \o cn.trace \o u.trace
                 \o <<Send, UnlockShm>>)

\* The queries that are stored: two clients of one name, two upstreams.
StoredQueries ==
    {[type |-> TYPE_A, domain |-> "a.example", client |-> "192.168.0.2",
      name |-> "laptop", forward |-> "8.8.8.8"],
     [type |-> TYPE_AAAA, domain |-> "b.example", client |-> "192.168.0.3",
      name |-> "laptop", forward |-> "8.8.8.8"],
     [type |-> TYPE_A, domain |-> "c.example", client |-> "192.168.0.2",
      name |-> "laptop", forward |-> "9.9.9.9"]}

\* With and without a password, with and without the privacy level at its
\* maximum.
ApiConfigs ==
    {Config(pw, "", "", "", TRUE, FALSE) @@ [privacylevel |-> p] :
        pw \in {"", PwHash}, p \in {PRIVACY_SHOW_ALL, PRIVACY_MAXIMUM}}

\* The requests for queries: in memory or on disk, with or without a cursor
\* (valid or beyond the table) and a type filter (valid or not).
ApiQueriesRequests ==
    [disk : BOOLEAN,
     type : {NoParam, Param(TYPE_A), Param(BadType)},
     cursor : {NoParam, Param(1), Param(MaxApiRows + 1)},
     start : {NoParam}, length : {NoParam}, draw : {NoParam}]

\* The requests for suggestions.
SuggestionsRequests == [count : {NoParam} \cup {Param(c) : c \in -1 .. MaxCount}]

SuggestionsFaults ==
    {[call |-> 0, what |-> NoFault]} \cup [call : 1 .. 4, what : ArrayFaults]

\* The handler run last.
ApiRun(op, uid, req, run) ==
    [op |-> op, uid |-> uid, req |-> req, resp |-> run.resp, trace |-> run.trace]

InitApi ==
    /\ auth_data = [i \in Slots |-> ZeroSession]
    /\ clock = 0
    /\ rng = 0
    /\ config \in ApiConfigs
    /\ last = ApiRun("start", API_AUTH_UNAUTHORIZED, <<>>, Run(QueriesError(0), <<>>))
    /\ wk = NoWorkers
    /\ NoCore

\* A query is stored under the next id.
StoreApiQuery ==
    /\ Len(queries) < MaxApiRows
    /\ \E q \in StoredQueries :
         queries' = Append(queries, q @@ [id |-> largest_db_index(queries) + 1])
    /\ UNCHANGED <<auth_data, clock, rng, config, last, wk, counters, clients,
                   lastRateLimitCleaner, db>>
    /\ UNCHANGED logvars

\* GET /api/queries from a client that sends no session id.
ApiQueriesHandler ==
    /\ db.stmts < MaxOpenStmts
    /\ \E req \in ApiQueriesRequests, f \in QueriesFaults :
         LET uid == check_client_auth(auth_data, NoRequest, TRUE, clock).uid
             run == api_queries_run(queries, uid, req, f)
         IN  /\ last' = ApiRun("api_queries", uid, req, run)
             /\ db' = AfterCalls(db, run.trace, 1)
    /\ UNCHANGED <<auth_data, clock, rng, config, wk, queries, counters, clients,
                   lastRateLimitCleaner>>
    /\ UNCHANGED logvars

\* GET /api/queries/suggestions from a client that sends no session id.
ApiQueriesSuggestions ==
    /\ \E req \in SuggestionsRequests, fault \in SuggestionsFaults :
         LET uid == check_client_auth(auth_data, NoRequest, TRUE, clock).uid
             run == api_queries_suggestions_run(queries, uid, req, fault)
         IN  /\ last' = ApiRun("api_queries_suggestions", uid, req, run)
             /\ db' = AfterCalls(db, run.trace, 1)
    /\ UNCHANGED <<auth_data, clock, rng, config, wk, queries, counters, clients,
                   lastRateLimitCleaner>>
    /\ UNCHANGED logvars

NextApi ==
    \/ StoreApiQuery
    \/ ApiQueriesHandler
    \/ ApiQueriesSuggestions

SpecApi == InitApi /\ [][NextApi]_vars

\* C22: a request for which check_client_auth yields unauthorized gets the
\* unauthorized response of GET /api/queries and of GET
\* /api/queries/suggestions, never a 200, whatever the configuration.
C22_UnauthorizedNever200 ==
    (last.op \in {"api_queries", "api_queries_suggestions"}
     /\ last.uid = API_AUTH_UNAUTHORIZED) => last.resp.code = 401

\* C23: when a handler has returned, the disk database is not attached:
\* every return path of api_queries after the attach has detached it.
C23_DiskDetachedOnReturn == db.attached = FALSE

\* C24: when a handler has returned, no prepared statement is left open.
C24_StatementsFinalized == db.stmts = 0

\* the positions of call c in trace
Calls(trace, c) == {k \in 1 .. Len(trace) : trace[k] = c}

\* C25: a handler that has returned has released the lock as often as it
\* has taken it, at most once and not before taking it, and on an error
\* path the lock is released before the error response is sent.
C25_LockReleasedOnce ==
    last.op \in {"api_queries", "api_queries_suggestions"} =>
        LET locks == Calls(last.trace, LockShm)
            unlocks == Calls(last.trace, UnlockShm)
            sends == Calls(last.trace, Send)
        IN  /\ db.locks = 0
            /\ Cardinality(locks) <= 1
            /\ Cardinality(unlocks) = Cardinality(locks)
            /\ \A l \in locks, u \in unlocks : l < u
            /\ last.resp.code # 200 =>
                 \A u \in unlocks, x \in sends : u < x

\* the first n elements of seq, all of them when there are fewer
FirstN(seq, n) == SubSeq(seq, 1, IF n < Len(seq) THEN n ELSE Len(seq))

\* C26: for count = c >= 0 the suggestions hold min(c, available) domains
\* and upstreams, and min(c/2, available) client addresses followed by
\* min(c/2, available) client names.
C26_SuggestionsCappedByCount ==
    [][(last'.op = "api_queries_suggestions" /\ last' # last
        /\ last'.resp.code = 200
        /\ get_var(last'.req.count, DefaultCount) >= 0) =>
           LET c == get_var(last'.req.count, DefaultCount)
           IN  /\ last'.resp.domain = FirstN(DomainById(queries), c)
               /\ last'.resp.upstream = FirstN(ForwardById(queries), c)
               /\ last'.resp.client = FirstN(ClientIPs(queries), c \div 2)
                                      \o FirstN(ClientNames(queries), c \div 2)]_vars

-----------------------------------------------------------------------------
(* The log parser (src/parser.c): process_pihole_log reads pihole.log line
   by line. A line is kept as what the parser looks for in it: the marker
   that makes it a query, a forwarded or another line, the time of day of its
   timestamp, the domain, the client and the upstream server it names, and
   which of the delimiters the parser searches for is missing. *)

\* largest number of lines of the log
MaxLines == 3
\* the number of lines after a query line that are searched for its outcome
LookAhead == 200
\* the last bucket of ten minutes that the lines of the log fall in
MaxTimeidx == 1

\* The markers of the lines.
QueryA == "query[A]"
QueryAAAA == "query[AAAA]"
QueryANY == "query[ANY]"
QueryPTR == "query[PTR]"
QuerySRV == "query[SRV]"
Forwarded == "forwarded"
GravityList == "gravity.list"
Cached == "cached"
WildcardConfig == "config"
OtherLine == "other"

\* A line of the log; missing is the delimiter the parser does not find
\* ("" when the line is complete).
LogLine(tag, time, domain, client, forward, missing) ==
    [tag |-> tag, time |-> time, domain |-> domain, client |-> client,
     forward |-> forward, missing |-> missing]

\* The lines that the log is made of.
LogLines ==
    {LogLine(QueryA, 0, "a.com", "10.0.0.1", "", ""),
     LogLine(QueryAAAA, 600, "xa.com", "10.0.0.2", "", ""),
     LogLine(QueryANY, 600, "a.com", "10.0.0.1", "", ""),
     LogLine(QueryA, 600, "", "", "", "domain start"),
     LogLine(QueryA, 0, "a.com", "", "", "domain end"),
     LogLine(QueryAAAA, 600, "a.com", "10.0.0.1", "", "client end"),
     LogLine(GravityList, 0, "a.com", "", "", ""),
     LogLine(Forwarded, 0, "a.com", "", "8.8.8.8", ""),
     LogLine(Forwarded, 600, "xa.com", "", "9.9.9.9", ""),
     LogLine(Forwarded, 0, "a.com", "", "", "forward start"),
     LogLine(Cached, 0, "a.com", "", "", ""),
     LogLine(WildcardConfig, 600, "xa.com", "", "", ""),
     LogLine(QueryPTR, 0, "", "", "", ""),
     LogLine(QuerySRV, 0, "", "", "", ""),
     LogLine(OtherLine, 0, "", "", "", "")}

\* The logs of at most MaxLines lines.
Logs == UNION {[1 .. n -> LogLines] : n \in 0 .. MaxLines}

\* strstr(text, s) != NULL for the names of the log lines.
IsSubstr(s, text) == s = text \/ (s = "a.com" /\ text = "xa.com")

\* strstr(readbuffer, "]: query[A") != NULL
IsQueryLine(line) == line.tag \in {QueryA, QueryAAAA, QueryANY}

\* strstr(readbuffer, ": forwarded") != NULL
IsForwardedLine(line) == line.tag = Forwarded

\* The index of the bucket of ten minutes, from the minute and the hour of
\* the timestamp (time is in seconds since midnight).
Timeidx(time) ==
    LET tm_min == (time \div 60) % 60
        tm_hour == time \div 3600
    IN  ((tm_min - (tm_min % 10)) \div 10) + (6 * tm_hour)

\* The type of a query line: 1 for A, 2 for AAAA, 0 for any other.
TypeOf(line) ==
    IF line.tag = QueryA THEN 1 ELSE IF line.tag = QueryAAAA THEN 2 ELSE 0

\* The outcome that line tells of the query for domain: 1 gravity.list,
\* 2 forwarded, 3 cached, 4 wildcard; 0 when the line tells none.
OutcomeOf(line, domain) ==
    IF ~IsSubstr(domain, line.domain) THEN 0
    ELSE IF line.tag = GravityList THEN 1
    ELSE IF line.tag = Forwarded THEN 2
    ELSE IF line.tag = Cached THEN 3
    ELSE IF line.tag = WildcardConfig THEN 4
    ELSE 0

\* The status of a query: the outcome told by the first of the LookAhead
\* lines after position pos that tells one, 0 when the log ends before.
RECURSIVE FindStatus(_, _, _, _)
FindStatus(log, pos, i, domain) ==
    IF i >= LookAhead \/ pos + i + 1 > Len(log) THEN 0
    ELSE IF OutcomeOf(log[pos + i + 1], domain) # 0
    THEN OutcomeOf(log[pos + i + 1], domain)
    ELSE FindStatus(log, pos, i + 1, domain)

\* Mutant: the search through the known records never finds one.
FindRecord_Never(table, key) == -1

\* The index of the first record of table with the key, -1 when there is
\* none; the index of the first record is 0.
FindRecord(table, key) ==
    LET found == {i \in 1 .. Len(table) : table[i].key = key}
    IN  IF found = {} THEN -1
        ELSE (CHOOSE i \in found : \A j \in found : i <= j) - 1

\* gethostbyaddr(): the host name of an address, "" when there is none.
gethostbyaddr(ip) == IF ip = "10.0.0.1" THEN "laptop" ELSE ""

\* The counters before the first line.
ZeroParserCounters ==
    [queries |-> 0, domains |-> 0, clients |-> 0, forwarded |-> 0,
     IPv4 |-> 0, IPv6 |-> 0, PTR |-> 0, SRV |-> 0,
     unknown |-> 0, blocked |-> 0, cached |-> 0, wildcardblocked |-> 0,
     overtime |-> 0]

\* The line read and what was done with it.
ParserOp(op, line) == [op |-> op, line |-> line]

InitParser ==
    /\ auth_data = [i \in Slots |-> ZeroSession]
    /\ clock = 0
    /\ rng = 0
    /\ config = Config("", "", "", "", TRUE, FALSE)
    /\ last = ParserOp("start", LogLine(OtherLine, 0, "", "", "", ""))
    /\ wk = NoWorkers
    /\ queries = <<>>
    /\ counters = ZeroParserCounters
    /\ clients = <<>>
    /\ lastRateLimitCleaner = 0
    /\ db = NoDb
    /\ domains = <<>>
    /\ forwarded = <<>>
    /\ overTime = [t \in 0 .. MaxTimeidx |-> [total |-> 0, blocked |-> 0]]
    /\ dnsmasqlog \in Logs
    /\ logpos = 0

\* what the parser leaves alone
ParserUnchanged == UNCHANGED <<auth_data, clock, rng, config, wk, lastRateLimitCleaner,
                               db, dnsmasqlog>>

\* The round of the loop for a query line.
ProcessQueryLine ==
    /\ logpos < Len(dnsmasqlog)
    /\ IsQueryLine(dnsmasqlog[logpos + 1])
    /\ LET line == dnsmasqlog[logpos + 1]
           timeidx == Timeidx(line.time)
           c0 == IF timeidx > counters.overtime
                 THEN [counters EXCEPT !.overtime = timeidx] ELSE counters
       IN  IF line.missing # ""
           THEN /\ counters' = c0
                /\ last' = ParserOp("skipped", line)
                /\ UNCHANGED <<queries, clients, domains, overTime>>
           ELSE LET type == TypeOf(line)
                    c1 == IF type = 1 THEN [c0 EXCEPT !.IPv4 = @ + 1]
                          ELSE IF type = 2 THEN [c0 EXCEPT !.IPv6 = @ + 1]
                          ELSE c0
                    status == FindStatus(dnsmasqlog, logpos + 1, 0, line.domain)
                    d == FindRecord([i \in 1 .. Len(domains) |->
                                       [key |-> domains[i].domain]], line.domain)
                    domainID == IF d >= 0 THEN d ELSE c1.domains
                    doms == IF d >= 0
                            THEN [domains EXCEPT ![d + 1].count = @ + 1]
                            ELSE Append(domains, [domain |-> line.domain, count |-> 1,
                                                  blockedcount |-> 0])
                    c2 == IF d >= 0 THEN c1 ELSE [c1 EXCEPT !.domains = @ + 1]
                    c == FindRecord([i \in 1 .. Len(clients) |->
                                       [key |-> clients[i].ip]], line.client)
                    clientID == IF c >= 0 THEN c ELSE c2.clients
                    c3 == IF c >= 0 THEN c2 ELSE [c2 EXCEPT !.clients = @ + 1]
                    c4 == [c3 EXCEPT !.queries = @ + 1]
                IN  /\ clients' = IF c >= 0
                                  THEN [clients EXCEPT ![c + 1].count = @ + 1]
                                  ELSE Append(clients,
                                              [ip |-> line.client, count |-> 1,
                                               name |-> gethostbyaddr(line.client)])
                    /\ queries' = Append(queries,
                                         [timestamp |-> line.time, type |-> type,
                                          status |-> status, domainID |-> domainID,
                                          clientID |-> clientID])
                    /\ overTime' =
                         [overTime EXCEPT
                            ![timeidx].total = @ + 1,
                            ![timeidx].blocked = IF status \in {1, 4} THEN @ + 1 ELSE @]
                    /\ domains' =
                         IF status = 1
                         THEN [doms EXCEPT ![domainID + 1].blockedcount = @ + 1]
                         ELSE doms
                    /\ counters' =
                         IF status = 0 THEN [c4 EXCEPT !.unknown = @ + 1]
                         ELSE IF status = 1 THEN [c4 EXCEPT !.blocked = @ + 1]
                         ELSE IF status = 3 THEN [c4 EXCEPT !.cached = @ + 1]
                         ELSE IF status = 4 THEN [c4 EXCEPT !.wildcardblocked = @ + 1]
                         ELSE c4
                    /\ last' = ParserOp("query", line)
    /\ logpos' = logpos + 1
    /\ UNCHANGED forwarded
    /\ ParserUnchanged

\* The round of the loop for a forwarded line.
ProcessForwardedLine ==
    /\ logpos < Len(dnsmasqlog)
    /\ ~IsQueryLine(dnsmasqlog[logpos + 1])
    /\ IsForwardedLine(dnsmasqlog[logpos + 1])
    /\ LET line == dnsmasqlog[logpos + 1]
           f == FindRecord([i \in 1 .. Len(forwarded) |->
                              [key |-> forwarded[i].ip]], line.forward)
       IN  IF line.missing # ""
           THEN /\ last' = ParserOp("skipped", line)
                /\ UNCHANGED <<forwarded, counters>>
           ELSE /\ forwarded' = IF f >= 0
                                THEN [forwarded EXCEPT ![f + 1].count = @ + 1]
                                ELSE Append(forwarded,
                                            [ip |-> line.forward, count |-> 1,
                                             name |-> gethostbyaddr(line.forward)])
                /\ counters' = IF f >= 0 THEN counters
                               ELSE [counters EXCEPT !.forwarded = @ + 1]
                /\ last' = ParserOp("forwarded", line)
    /\ logpos' = logpos + 1
    /\ UNCHANGED <<queries, clients, domains, overTime>>
    /\ ParserUnchanged

\* The round of the loop for any other line: PTR and SRV queries are
\* counted, the rest is passed over.
ProcessOtherLine ==
    /\ logpos < Len(dnsmasqlog)
    /\ ~IsQueryLine(dnsmasqlog[logpos + 1])
    /\ ~IsForwardedLine(dnsmasqlog[logpos + 1])
    /\ LET line == dnsmasqlog[logpos + 1]
       IN  /\ counters' = IF line.tag = QueryPTR THEN [counters EXCEPT !.PTR = @ + 1]
                          ELSE IF line.tag = QuerySRV THEN [counters EXCEPT !.SRV = @ + 1]
                          ELSE counters
           /\ last' = ParserOp("other", line)
    /\ logpos' = logpos + 1
    /\ UNCHANGED <<queries, clients, domains, forwarded, overTime>>
    /\ ParserUnchanged

NextParser ==
    \/ ProcessQueryLine
    \/ ProcessForwardedLine
    \/ ProcessOtherLine

SpecParser == InitParser /\ [][NextParser]_vars

\* the statuses of a blocked query: blocked by gravity.list, by a wildcard
BlockedStatuses == {1, 4}

\* the blocked queries (their positions in queries) of a domain, of a bucket
BlockedOfDomain(domainID) ==
    {k \in 1 .. Len(queries) :
        queries[k].domainID = domainID /\ queries[k].status \in BlockedStatuses}
BlockedInBucket(t) ==
    {k \in 1 .. Len(queries) :
        Timeidx(queries[k].timestamp) = t /\ queries[k].status \in BlockedStatuses}

\* C27: for every domain, blockedcount is the number of admitted queries for
\* the domain with a blocked status (gravity or wildcard), and the blocked
\* count of every bucket of overTime is the number of blocked queries whose
\* timestamp falls into the bucket.
C27_BlockedCountsMatchQueries ==
    /\ \A i \in 1 .. Len(domains) :
         domains[i].blockedcount = Cardinality(BlockedOfDomain(i - 1))
    /\ \A t \in DOMAIN overTime :
         overTime[t].blocked = Cardinality(BlockedInBucket(t))

\* C28: the counters of the query types sum to counters.queries, and so do
\* the counters of the statuses: every admitted query is counted under
\* exactly one type and under exactly one status.
C28_TypeAndStatusSums ==
    /\ counters.IPv4 + counters.IPv6 + counters.PTR + counters.SRV = counters.queries
    /\ counters.unknown + counters.blocked + counters.cached
       + counters.wildcardblocked = counters.queries

\* a query line that is admitted, a forwarded line that is taken
Admitted(line) == IsQueryLine(line) /\ line.missing = ""
Taken(line) == ~IsQueryLine(line) /\ IsForwardedLine(line) /\ line.missing = ""

\* the lines read so far that were admitted, that were taken
AdmittedLines == {dnsmasqlog[k] : k \in {j \in 1 .. logpos : Admitted(dnsmasqlog[j])}}
TakenLines == {dnsmasqlog[k] : k \in {j \in 1 .. logpos : Taken(dnsmasqlog[j])}}

\* the sum of the field count of the records of table
RECURSIVE SumCounts(_, _)
SumCounts(table, k) ==
    IF k = 0 THEN 0 ELSE table[k].count + SumCounts(table, k - 1)

\* The tables hold one record for each string seen and no string twice, and
\* the counts of the domains and those of the clients sum to the queries.
OneRecordPerString ==
    /\ \A i, j \in 1 .. Len(domains) : domains[i].domain = domains[j].domain => i = j
    /\ \A i, j \in 1 .. Len(clients) : clients[i].ip = clients[j].ip => i = j
    /\ \A i, j \in 1 .. Len(forwarded) : forwarded[i].ip = forwarded[j].ip => i = j
    /\ {domains[i].domain : i \in 1 .. Len(domains)}
         = {l.domain : l \in AdmittedLines}
    /\ {clients[i].ip : i \in 1 .. Len(clients)}
         = {l.client : l \in AdmittedLines}
    /\ {forwarded[i].ip : i \in 1 .. Len(forwarded)}
         = {l.forward : l \in TakenLines}
    /\ Len(domains) = counters.domains
    /\ Len(clients) = counters.clients
    /\ Len(forwarded) = counters.forwarded
    /\ SumCounts(domains, Len(domains)) = counters.queries
    /\ SumCounts(clients, Len(clients)) = counters.queries

\* C29: after every line the tables of the domains, clients and upstream
\* servers hold exactly one record for each string seen, the record of a
\* string keeps its index, and the counts of the domains and those of the
\* clients each sum to counters.queries.
C29_InterningIsStable ==
    [][/\ OneRecordPerString'
       /\ \A i \in 1 .. Len(domains) :
            i <= Len(domains') /\ domains'[i].domain = domains[i].domain
       /\ \A i \in 1 .. Len(clients) :
            i <= Len(clients') /\ clients'[i].ip = clients[i].ip
       /\ \A i \in 1 .. Len(forwarded) :
            i <= Len(forwarded') /\ forwarded'[i].ip = forwarded[i].ip]_vars

\* Two queries for a domain and of a client already known have been
\* admitted after a query that made them known, and an upstream server has
\* been seen.
C29_Witness ==
    /\ counters.queries = 2
    /\ Len(domains) = 1 /\ domains[1].count = 2
    /\ Len(clients) = 1 /\ clients[1].count = 2
    /\ Len(forwarded) = 1

\* C30: a malformed query line and a malformed forwarded line are dropped:
\* reading one changes no counter (counters.overtime included), no record
\* of a domain, client or upstream server and no bucket of overTime, and
\* the parser goes on to the next line.
C30_MalformedLineIsDropped ==
    [][(last'.op = "skipped" /\ logpos' # logpos) =>
          /\ counters' = counters
          /\ UNCHANGED <<queries, domains, clients, forwarded, overTime>>
          /\ logpos' = logpos + 1]_vars

\* The status that the lines after position pos tell of the query for
\* domain when only lines about that very domain count: the outcome of the
\* first of the LookAhead following lines that names the domain and carries
\* a tag, 0 (unknown) when there is none.
RECURSIVE OwnStatus(_, _, _, _)
OwnStatus(log, pos, i, domain) ==
    IF i >= LookAhead \/ pos + i + 1 > Len(log) THEN 0
    ELSE LET line == log[pos + i + 1]
         IN  IF line.domain = domain /\ OutcomeOf(line, domain) # 0
             THEN OutcomeOf(line, domain)
             ELSE OwnStatus(log, pos, i + 1, domain)

\* C31: an admitted query takes the status told by the first of the
\* following lines that concerns its own domain and carries a recognised
\* tag, and unknown when there is none; a line about another domain never
\* determines it.
C31_StatusFromOwnDomain ==
    [][(last'.op = "query" /\ logpos' # logpos) =>
          queries'[Len(queries')].status
            = OwnStatus(dnsmasqlog, logpos + 1, 0, last'.line.domain)]_vars

\* C33: when runGC removes r > 0 queries from a ring holding n, the ring
\* holds afterwards exactly the n - r surviving queries, unchanged and in
\* their order, at indices 0 .. n-r-1, and counters.queries = n - r (the
\* ring is the sequence of its first counters.queries slots: the slots
\* behind them are the zeroed ones).
C33_CompactionKeepsSurvivors ==
    [][((\E flush \in BOOLEAN : RunGC(flush)) /\ last'.removed > 0) =>
          /\ queries' = SubSeq(queries, last'.removed + 1, counters.queries)
          /\ counters'.queries = counters.queries - last'.removed
          /\ Len(queries') = counters'.queries]_vars

-----------------------------------------------------------------------------
(* The housekeeping thread step by step (GC_thread): the loop with its
   cancellation points, the reset of the rate windows, the resource check,
   a non-flush runGC with the window in which it has released the lock for
   the deletion in the database, and the reload of the configuration. The
   DNS side admits queries whenever the lock is free, and the flag killed
   can be set at any moment. *)

\* capacity of the ring of queries
RingSize == 2
\* how many queries are admitted altogether
MaxAdmitted == 3
\* the time at which the thread starts, and the time at which the clock stops
HkStart == 4
MaxHkTime == 8
\* seconds between two resource checks
RCinterval == 2

\* the configuration items the housekeeping thread reads
HkConfig(maxHistory, interval) ==
    [maxHistory |-> maxHistory, rate_limit_count |-> RateLimitCount,
     rate_limit_interval |-> interval]

\* the configurations pihole.toml may hold
HkConfigs == {HkConfig(MaxHistory, RateLimitInterval), HkConfig(0, 0)}

\* the type and the status of the queries admitted
QueryProfiles == {<<TYPE_A, QUERY_FORWARDED>>, <<TYPE_AAAA, QUERY_UNKNOWN>>}

\* GC_thread before the first round of its loop: the locals of the thread,
\* the locals of the runGC in progress (mintime, removed), the queries the
\* walks of runGC have processed (torn), the length of the ring at the last
\* walk (walked), and the number of steps started after killed was set (late).
HkThread(t0) ==
    [pc |-> "head", killed |-> FALSE, now |-> t0,
     lastGCrun |-> t0 - CRem(t0, GCinterval), lastResourceCheck |-> 0,
     mintime |-> 0, removed |-> 0, torn |-> {}, walked |-> 0, late |-> 0,
     watching |-> TRUE, thread_running |-> TRUE, newconf |-> {}, admitted |-> 0]

\* the record of the step taken last
HkOp(op) == [op |-> op, before |-> config]

InitHk ==
    /\ auth_data = [i \in Slots |-> ZeroSession]
    /\ clock = HkStart
    /\ rng = 0
    /\ config \in HkConfigs
    /\ last = HkOp("start")
    /\ wk = HkThread(HkStart)
    /\ queries = <<>>
    /\ counters = ZeroCounters
    /\ clients = <<>>
    /\ lastRateLimitCleaner = HkStart
    /\ db = [mem |-> {}, mutex |-> "free"]
    /\ NoLog

\* what no step of the housekeeping thread touches
hkfixed == <<auth_data, rng, domains, forwarded, overTime, dnsmasqlog, logpos>>

\* Mutant: the cancellation points do not look at the flag.
Cancelled_Never(killed) == FALSE

\* The intermediate cancellation points: if(killed) break;
Cancelled(killed) == killed

\* a step begins: it is counted when killed is set already
Begin(t) == [t EXCEPT !.late = IF t.killed THEN @ + 1 ELSE @]

\* while(!killed): the head of the loop reads the time and decides on the
\* reset of the rate windows.
LoopHead ==
    /\ wk.pc = "head"
    /\ wk' = IF wk.killed
             THEN [wk EXCEPT !.pc = "exit"]
             ELSE [wk EXCEPT !.now = clock,
                             !.pc = IF ResetDue(clock) THEN "rate" ELSE "cp1"]
    /\ last' = HkOp("head")
    /\ UNCHANGED <<clock, config, queries, counters, clients, lastRateLimitCleaner, db>>
    /\ UNCHANGED hkfixed

\* lastRateLimitCleaner = now; lock_shm();
RateLock ==
    /\ wk.pc = "rate"
    /\ db.mutex = "free"
    /\ lastRateLimitCleaner' = wk.now
    /\ db' = [db EXCEPT !.mutex = "GC"]
    /\ wk' = [Begin(wk) EXCEPT !.pc = "rate_locked"]
    /\ last' = HkOp("rate_lock")
    /\ UNCHANGED <<clock, config, queries, counters, clients>>
    /\ UNCHANGED hkfixed

\* reset_rate_limiting(); unlock_shm();
RateReset ==
    /\ wk.pc = "rate_locked"
    /\ clients' = reset_rate_limiting(clients)
    /\ db' = [db EXCEPT !.mutex = "free"]
    /\ wk' = [wk EXCEPT !.pc = "cp1"]
    /\ last' = HkOp("reset_rate_limiting")
    /\ UNCHANGED <<clock, config, queries, counters, lastRateLimitCleaner>>
    /\ UNCHANGED hkfixed

\* The first cancellation point, calc_cpu_usage() and the test whether the
\* resource check is due.
Cancel1 ==
    /\ wk.pc = "cp1"
    /\ wk' = IF Cancelled(wk.killed)
             THEN [wk EXCEPT !.pc = "exit"]
             ELSE [wk EXCEPT !.pc = IF wk.now - wk.lastResourceCheck >= RCinterval
                                    THEN "resource" ELSE "cp2"]
    /\ last' = HkOp("cp1")
    /\ UNCHANGED <<clock, config, queries, counters, clients, lastRateLimitCleaner, db>>
    /\ UNCHANGED hkfixed

\* check_load(), check_space(): lastResourceCheck = now.
ResourceCheck ==
    /\ wk.pc = "resource"
    /\ wk' = [Begin(wk) EXCEPT !.lastResourceCheck = wk.now, !.pc = "cp2"]
    /\ last' = HkOp("resource_check")
    /\ UNCHANGED <<clock, config, queries, counters, clients, lastRateLimitCleaner, db>>
    /\ UNCHANGED hkfixed

\* The second cancellation point and the test whether runGC is due (no
\* garbage collection is requested with doGC).
Cancel2 ==
    /\ wk.pc = "cp2"
    /\ wk' = IF Cancelled(wk.killed)
             THEN [wk EXCEPT !.pc = "exit"]
             ELSE [wk EXCEPT !.pc = IF wk.now - GCdelay - wk.lastGCrun >= GCinterval
                                    THEN "gc" ELSE "cp3"]
    /\ last' = HkOp("cp2")
    /\ UNCHANGED <<clock, config, queries, counters, clients, lastRateLimitCleaner, db>>
    /\ UNCHANGED hkfixed

\* runGC(now, &lastGCrun, false) begins: lastGCrun is set, the lock is taken
\* and mintime is computed.
GcLock ==
    /\ wk.pc = "gc"
    /\ db.mutex = "free"
    /\ db' = [db EXCEPT !.mutex = "GC"]
    /\ wk' = [Begin(wk) EXCEPT
                !.lastGCrun = wk.now - GCdelay - CRem(wk.now - GCdelay, GCinterval),
                !.mintime = Mintime(wk.now, FALSE),
                !.pc = "gc_walk"]
    /\ last' = HkOp("gc_lock")
    /\ UNCHANGED <<clock, config, queries, counters, clients, lastRateLimitCleaner>>
    /\ UNCHANGED hkfixed

\* runGC: the loop over the queries, then unlock_shm() for the deletion in
\* the database.
GcWalk ==
    /\ wk.pc = "gc_walk"
    /\ LET p == ProcessQueries(queries, counters, 0, counters.queries, wk.mintime, 0)
       IN  /\ queries' = p.queries
           /\ counters' = p.counters
           /\ wk' = [wk EXCEPT !.removed = p.removed,
                               !.torn = @ \cup {queries[k].id : k \in 1 .. p.removed},
                               !.walked = counters.queries,
                               !.pc = "gc_db"]
    /\ db' = [db EXCEPT !.mutex = "free"]
    /\ last' = HkOp("gc_walk")
    /\ UNCHANGED <<clock, config, clients, lastRateLimitCleaner>>
    /\ UNCHANGED hkfixed

\* delete_old_queries_from_db(true, mintime): the rows of mem.queries with a
\* timestamp below mintime are deleted.
delete_old_queries_from_db(mem, mintime) == {q \in mem : ~(q.timestamp < mintime)}

\* runGC: the deletion in the database, the lock released.
GcDeleteDb ==
    /\ wk.pc = "gc_db"
    /\ db' = [db EXCEPT !.mem = delete_old_queries_from_db(db.mem, wk.mintime)]
    /\ wk' = [wk EXCEPT !.pc = "gc_relock"]
    /\ last' = HkOp("gc_delete_db")
    /\ UNCHANGED <<clock, config, queries, counters, clients, lastRateLimitCleaner>>
    /\ UNCHANGED hkfixed

\* runGC: lock_shm() after the deletion.
GcRelock ==
    /\ wk.pc = "gc_relock"
    /\ db.mutex = "free"
    /\ db' = [db EXCEPT !.mutex = "GC"]
    /\ wk' = [wk EXCEPT !.pc = "gc_compact"]
    /\ last' = HkOp("gc_relock")
    /\ UNCHANGED <<clock, config, queries, counters, clients, lastRateLimitCleaner>>
    /\ UNCHANGED hkfixed

\* runGC: memmove(getQuery(0), getQuery(removed - 1), (n - removed) queries)
\* on a ring of n queries; the rest of the ring is zeroed.
MoveForward(qs, n, removed) == SubSeq(qs, removed, n - 1)

\* runGC: the memory is moved forward when queries were removed, the counter
\* is lowered, and the lock is released.
GcCompact ==
    /\ wk.pc = "gc_compact"
    /\ IF wk.removed > 0
       THEN /\ queries' = MoveForward(queries, counters.queries, wk.removed)
            /\ counters' = [counters EXCEPT !.queries = @ - wk.removed]
       ELSE UNCHANGED <<queries, counters>>
    /\ db' = [db EXCEPT !.mutex = "free"]
    /\ wk' = [wk EXCEPT !.pc = "cp3"]
    /\ last' = HkOp("gc_compact")
    /\ UNCHANGED <<clock, config, clients, lastRateLimitCleaner>>
    /\ UNCHANGED hkfixed

\* The third cancellation point and check_inotify_event(): was pihole.toml
\* modified?
Cancel3 ==
    /\ wk.pc = "cp3"
    /\ \E modified \in BOOLEAN :
         wk' = IF Cancelled(wk.killed)
               THEN [wk EXCEPT !.pc = "exit"]
               ELSE [wk EXCEPT !.pc = IF modified THEN "reload" ELSE "sleep"]
    /\ last' = HkOp("cp3")
    /\ UNCHANGED <<clock, config, queries, counters, clients, lastRateLimitCleaner, db>>
    /\ UNCHANGED hkfixed

\* reread_config(): the file is read into a copy of the configuration; a
\* copy that readFTLtoml rejects is freed.
RereadConfig ==
    /\ wk.pc = "reload"
    /\ \E newconf \in HkConfigs, accepted \in BOOLEAN :
         wk' = IF accepted
               THEN [Begin(wk) EXCEPT !.newconf = {newconf}, !.pc = "replace"]
               ELSE [Begin(wk) EXCEPT !.pc = "sleep"]
    /\ last' = HkOp("reread_config")
    /\ UNCHANGED <<clock, config, queries, counters, clients, lastRateLimitCleaner, db>>
    /\ UNCHANGED hkfixed

\* replace_config(): lock_shm();
ReplaceLock ==
    /\ wk.pc = "replace"
    /\ db.mutex = "free"
    /\ db' = [db EXCEPT !.mutex = "GC"]
    /\ wk' = [wk EXCEPT !.pc = "replace_locked"]
    /\ last' = HkOp("replace_lock")
    /\ UNCHANGED <<clock, config, queries, counters, clients, lastRateLimitCleaner>>
    /\ UNCHANGED hkfixed

\* Mutant: only one item of the new configuration is installed.
replace_config_Partial(old, newconf) == [old EXCEPT !.maxHistory = newconf.maxHistory]

\* replace_config(): memcpy(&config, newconf, sizeof(struct config));
replace_config(old, newconf) == newconf

\* replace_config(): the configuration is replaced and the lock released.
ReplaceConfig ==
    /\ wk.pc = "replace_locked"
    /\ \E newconf \in wk.newconf : config' = replace_config(config, newconf)
    /\ db' = [db EXCEPT !.mutex = "free"]
    /\ wk' = [wk EXCEPT !.newconf = {}, !.pc = "sleep"]
    /\ last' = HkOp("replace_config")
    /\ UNCHANGED <<clock, queries, counters, clients, lastRateLimitCleaner>>
    /\ UNCHANGED hkfixed

\* thread_sleepms(GC, 1000): a second passes (the clock stops at MaxHkTime).
ThreadSleep ==
    /\ wk.pc = "sleep"
    /\ clock' = IF clock < MaxHkTime THEN clock + 1 ELSE clock
    /\ wk' = [wk EXCEPT !.pc = "head"]
    /\ last' = HkOp("sleep")
    /\ UNCHANGED <<config, queries, counters, clients, lastRateLimitCleaner, db>>
    /\ UNCHANGED hkfixed

\* After the loop: watch_config(false); thread_running[GC] = false; return.
ThreadExit ==
    /\ wk.pc = "exit"
    /\ wk' = [wk EXCEPT !.watching = FALSE, !.thread_running = FALSE, !.pc = "done"]
    /\ last' = HkOp("exit")
    /\ UNCHANGED <<clock, config, queries, counters, clients, lastRateLimitCleaner, db>>
    /\ UNCHANGED hkfixed

\* the steps of the housekeeping thread
HkThreadStep ==
    \/ LoopHead
    \/ RateLock
    \/ RateReset
    \/ Cancel1
    \/ ResourceCheck
    \/ Cancel2
    \/ GcLock
    \/ GcWalk
    \/ GcDeleteDb
    \/ GcRelock
    \/ GcCompact
    \/ Cancel3
    \/ RereadConfig
    \/ ReplaceLock
    \/ ReplaceConfig
    \/ ThreadSleep
    \/ ThreadExit

\* The flag killed is set.
Kill ==
    /\ ~wk.killed
    /\ wk' = [wk EXCEPT !.killed = TRUE]
    /\ last' = HkOp("kill")
    /\ UNCHANGED <<clock, config, queries, counters, clients, lastRateLimitCleaner, db>>
    /\ UNCHANGED hkfixed

\* The DNS side admits a query under the lock: the query is stored at index
\* counters.queries of the ring with the time of its arrival, counted, and
\* mirrored in mem.queries.
AdmitQuery ==
    /\ db.mutex = "free"
    /\ counters.queries < RingSize
    /\ wk.admitted < MaxAdmitted
    /\ \E profile \in QueryProfiles :
        /\ queries' = Append(queries, [id |-> wk.admitted, timestamp |-> clock,
                                       type |-> profile[1], status |-> profile[2]])
        /\ counters' = [counters EXCEPT !.queries = @ + 1,
                                        !.querytype[profile[1]] = @ + 1,
                                        !.status[profile[2]] = @ + 1]
    /\ db' = [db EXCEPT !.mem = @ \cup {[id |-> wk.admitted, timestamp |-> clock]}]
    /\ wk' = [wk EXCEPT !.admitted = @ + 1]
    /\ last' = HkOp("new_query")
    /\ UNCHANGED <<clock, config, clients, lastRateLimitCleaner>>
    /\ UNCHANGED hkfixed

NextHk ==
    \/ HkThreadStep
    \/ Kill
    \/ AdmitQuery

SpecHk == InitHk /\ [][NextHk]_vars

\* The thread is scheduled: a step it can take is taken.
SpecHkFair == SpecHk /\ WF_vars(HkThreadStep)

\* C32: once killed is set the housekeeping thread terminates: it sees the
\* flag at the head of the loop or at a cancellation point, so that after
\* killed is set at most the one step it had decided on already is started;
\* having seen the flag it starts no step, closes the config watcher, sets
\* thread_running[GC] to false and returns, and it does not hold the lock
\* when it leaves the loop or has returned.
C32_KilledThreadTerminates ==
    /\ [](wk.late <= 1)
    /\ [](wk.pc \in {"exit", "done"} => db.mutex = "free")
    /\ [](wk.pc = "done" => ~wk.watching /\ ~wk.thread_running)
    /\ [][wk.pc \in {"exit", "done"} =>
            /\ wk'.pc \in {"exit", "done"}
            /\ wk'.late = wk.late
            /\ <<config, clients, lastRateLimitCleaner>>' 
                 = <<config, clients, lastRateLimitCleaner>>
            /\ db'.mutex = "free"]_vars
    /\ (wk.killed ~> wk.pc = "done")

\* C32 witness: killed was set when the thread had decided on a step; the
\* thread took that step and has returned.
C32_Witness ==
    /\ wk.killed
    /\ wk.pc = "done"
    /\ wk.late = 1
    /\ ~wk.thread_running

\* the ids of the queries in ring qs
RingIds(qs) == {qs[k].id : k \in 1 .. Len(qs)}

\* C34: after a runGC the queries left in mem.queries are the queries left
\* in the ring: the eviction from the ring and the deletion in the database
\* remove the same queries, those with a timestamp of exactly mintime
\* included.
C34_MemDbMirrorsRing ==
    [][GcCompact => RingIds(queries') = {q.id : q \in db'.mem}]_vars

\* C36: reread_config installs the configuration read only when readFTLtoml
\* accepts it, and then as a whole, in one step in which the thread holds
\* the lock: the configuration changes in no other step, and when reading
\* fails it is left as it was.
C36_ConfigInstalledWholeOrNotAtAll ==
    [][/\ (RereadConfig /\ wk'.pc = "sleep") => config' = config
       /\ ReplaceConfig => wk.newconf = {config'} /\ db.mutex = "GC"
       /\ (config' # config) => ReplaceConfig /\ db.mutex = "GC"]_vars

\* C36 witness: a configuration different from the active one was accepted
\* and installed.
C36_Witness ==
    /\ last.op = "replace_config"
    /\ last.before # config
    /\ config \in HkConfigs
    /\ db.mutex = "free"

\* C39: whenever the lock is free, the window of runGC included, the type
\* counters and the status counters each add up to counters.queries, and no
\* position of the ring below counters.queries holds a query whose
\* aggregates were torn down.
C39_CountersConsistentWhenUnlocked ==
    db.mutex = "free" =>
        /\ Sum(counters.querytype, Types) = counters.queries
        /\ Sum(counters.status, Statuses) = counters.queries
        /\ \A k \in 1 .. counters.queries : queries[k].id \notin wk.torn

\* C40: queries admitted while runGC had released the lock for the deletion
\* in the database are retained: after the compaction the ring holds every
\* survivor and every query admitted in the window, in the order of their
\* ids, and counters.queries is their number.
C40_WindowAdmissionsRetained ==
    [][(GcCompact /\ counters.queries > wk.walked) =>
          /\ queries' = SelectSeq(queries, LAMBDA q : q.id \notin wk.torn)
          /\ counters'.queries = Len(queries')]_vars

-----------------------------------------------------------------------------
(* The rows of GET /api/queries: a row of the table is read column by column
   and turned into a JSON item, and the filters on reply and dnssec become
   conditions of the statement. *)

\* QUERYSTR: the columns selected, in their order; sqlite3_column_*(stmt, k)
\* reads the column at position k, counted from 0.
QueryColumns ==
    <<"id", "timestamp", "type", "status", "domain", "client", "forward",
      "additional_info", "reply_type", "reply_time", "dnssec", "client_name",
      "ttl", "regex_id">>

\* the position of column name in the rows of the statement, counted from 0
ColumnIndex(name) ==
    (CHOOSE k \in 1 .. Len(QueryColumns) : QueryColumns[k] = name) - 1

\* values of the database: an integer, and a real with its whole part and its
\* thousandths
IntValue(n) == [kind |-> "INTEGER", int |-> n, frac |-> 0]
RealValue(n, frac) == [kind |-> "FLOAT", int |-> n, frac |-> frac]
TextValue(text) == [kind |-> "TEXT", int |-> 0, frac |-> 0, text |-> text]
NullValue == [kind |-> "NULL", int |-> 0, frac |-> 0]

\* sqlite3_column_int: the integer, a real is cut to its whole part
sqlite3_column_int(row, k) == row[k + 1].int

\* sqlite3_column_double: the real, an integer is converted
sqlite3_column_double(row, k) == <<row[k + 1].int, row[k + 1].frac>>

\* sqlite3_column_text, for the text columns
sqlite3_column_text(row, k) == row[k + 1].text

\* the canonical strings of the enums
TypeNames == <<"A", "AAAA", "ANY">>
StatusNames == <<"UNKNOWN", "GRAVITY", "FORWARDED">>
ReplyNames == <<"UNKNOWN", "NODATA", "NXDOMAIN">>
DnssecNames == <<"UNKNOWN", "SECURE", "INSECURE">>

\* get_query_type_str, get_query_status_str, get_query_reply_str and
\* get_query_dnssec_str: the string of a value of the enum, "N/A" otherwise
EnumStr(names, v) == IF v \in 0 .. (Len(names) - 1) THEN names[v + 1] ELSE "N/A"

\* api_queries: the JSON item built from a row of the statement.
RowItem(row) ==
    [id |-> sqlite3_column_int(row, 0),
     time |-> sqlite3_column_double(row, 1),
     type |-> EnumStr(TypeNames, sqlite3_column_int(row, 2)),
     status |-> EnumStr(StatusNames, sqlite3_column_int(row, 3)),
     dnssec |-> EnumStr(DnssecNames, sqlite3_column_int(row, 9)),
     domain |-> sqlite3_column_text(row, 4),
     upstream |-> IF row[7].kind = "NULL" THEN "null" ELSE sqlite3_column_text(row, 6),
     reply |-> [type |-> EnumStr(ReplyNames, sqlite3_column_int(row, 8)),
                time |-> sqlite3_column_double(row, 10)],
     client |-> [ip |-> sqlite3_column_text(row, 5),
                 name |-> IF row[12].kind = "TEXT"
                          THEN sqlite3_column_text(row, 11) ELSE "null"],
     ttl |-> sqlite3_column_int(row, 12),
     regex_id |-> sqlite3_column_int(row, 13)]

\* api_queries: the condition a filter adds to the statement, as the column
\* it names (add_querystr_string with "reply=" and "dnssec=").
FilterColumn(filter) == IF filter = "reply" THEN "reply" ELSE "dnssec"

\* sqlite3_prepare_v2 accepts a statement whose conditions name columns of
\* the table.
PrepareOk(columns) == \A c \in columns : \E k \in 1 .. Len(QueryColumns) : QueryColumns[k] = c

\* a row of the table with the given type, status, reply type, reply time
\* (thousandths of a second) and DNSSEC status
StoredRow(id, type, status, reply_type, reply_ms, dnssec) ==
    <<IntValue(id), RealValue(100, 500), IntValue(type), IntValue(status),
      TextValue("a.com"), TextValue("10.0.0.1"), NullValue, NullValue,
      IntValue(reply_type), RealValue(reply_ms \div 1000, reply_ms % 1000),
      IntValue(dnssec), TextValue("laptop"), IntValue(300), IntValue(-1)>>

\* the reply times of the rows, in thousandths of a second
ReplyTimes == {0, 25, 2000}

StoredRows ==
    {StoredRow(1, type, status, reply_type, reply_ms, dnssec) :
        type \in 0 .. 1, status \in 0 .. 2, reply_type \in 0 .. 2,
        reply_ms \in ReplyTimes, dnssec \in 0 .. 2}

\* the requests: no filter, or a filter on reply or on dnssec for a value
RowRequests ==
    {[filter |-> "none", value |-> 0]}
    \cup [filter : {"reply", "dnssec"}, value : 0 .. 2]

\* api_queries for an authorized request without cursor, start and length:
\* the statement is built and prepared, and every row it returns is emitted.
api_queries_rows(table, req) ==
    LET where == IF req.filter = "none" THEN {} ELSE {FilterColumn(req.filter)}
    IN  IF ~PrepareOk(where)
        THEN [code |-> 500, queries |-> <<>>]
        ELSE LET selected ==
                     IF req.filter = "none" THEN table
                     ELSE SelectSeq(table,
                            LAMBDA row :
                              row[ColumnIndex(FilterColumn(req.filter)) + 1].int = req.value)
             IN  [code |-> 200,
                  queries |-> [k \in 1 .. Len(selected) |-> RowItem(selected[k])]]

InitRows ==
    /\ auth_data = [i \in Slots |-> ZeroSession]
    /\ clock = 0
    /\ rng = 0
    /\ config = GcConfig
    /\ last = [op |-> "start"]
    /\ wk = NoWorkers
    /\ \E row \in StoredRows : queries = <<row>>
    /\ counters = ZeroCounters
    /\ clients = <<>>
    /\ lastRateLimitCleaner = 0
    /\ db = NoDb
    /\ NoLog

\* GET /api/queries is answered.
ApiQueriesRows ==
    /\ \E req \in RowRequests :
         last' = [op |-> "api_queries", req |-> req,
                  resp |-> api_queries_rows(queries, req)]
    /\ UNCHANGED <<auth_data, clock, rng, config, wk>>
    /\ UNCHANGED corevars

NextRows == ApiQueriesRows

SpecRows == InitRows /\ [][NextRows]_vars

\* the value of column name of a row
ColumnOf(row, name) == row[ColumnIndex(name) + 1]

\* the rows of the table a filter on column name for value selects
RowsWith(table, name, value) == SelectSeq(table, LAMBDA row : ColumnOf(row, name).int = value)

\* C35: every row emitted reports its own columns: type, status, reply.type,
\* reply.time and dnssec of the item are the columns type, status,
\* reply_type, reply_time and dnssec of the row, and a filter on reply or on
\* dnssec selects the rows by their reply_type or dnssec column.
C35_RowsReportOwnColumns ==
    last.op = "api_queries" =>
        LET req == last.req
            expected == IF req.filter = "none" THEN queries
                        ELSE IF req.filter = "reply"
                             THEN RowsWith(queries, "reply_type", req.value)
                             ELSE RowsWith(queries, "dnssec", req.value)
            items == last.resp.queries
        IN  /\ last.resp.code = 200
            /\ Len(items) = Len(expected)
            /\ \A k \in 1 .. Len(items) :
                 /\ items[k].type = EnumStr(TypeNames, ColumnOf(expected[k], "type").int)
                 /\ items[k].status = EnumStr(StatusNames, ColumnOf(expected[k], "status").int)
                 /\ items[k].reply.type
                      = EnumStr(ReplyNames, ColumnOf(expected[k], "reply_type").int)
                 /\ items[k].reply.time
                      = <<ColumnOf(expected[k], "reply_time").int,
                          ColumnOf(expected[k], "reply_time").frac>>
                 /\ items[k].dnssec
                      = EnumStr(DnssecNames, ColumnOf(expected[k], "dnssec").int)

-----------------------------------------------------------------------------
(* Logins under every kind of configuration: without a password, with a
   password, and with TOTP and an app password. *)

InitLogin == InitWith(PlainConfigs \cup TotpConfigs)

SpecLogin == InitLogin /\ [][Next]_vars

\* Slot i holds after the step a session it did not hold before.
SessionCreated(i) ==
    /\ auth_data'[i].used
    /\ \/ ~auth_data[i].used
       \/ auth_data'[i].login_at # auth_data[i].login_at
       \/ auth_data'[i].sid # auth_data[i].sid
       \/ auth_data'[i].remote_addr # auth_data[i].remote_addr

\* The password of a request is absent or empty, in the JSON body and in
\* the Authorization header.
NoPassword(req) ==
    /\ (req.method # HTTP_POST \/ req.json_password = "")
    /\ (basic_auth(req) = NULL \/ basic_auth(req) = "")

\* a JSON body with an empty password
EmptyPasswordBodies ==
    {[json |-> TRUE, json_password |-> "", basic |-> b, totp |-> NoTotp] : b \in {NULL, ""}}

\* the requests to /api/auth, those with an empty JSON password included
AuthRequests ==
    UNION {{Request(method, a, ssl, sp, bp) :
              ssl \in SslStates(a),
              bp \in BodyParts(method)
                      \cup (IF method = HTTP_POST THEN EmptyPasswordBodies ELSE {})} :
             method \in {HTTP_GET, HTTP_POST, HTTP_DELETE}, a \in RemoteAddrs,
             sp \in AuthSidParts}

\* C37: a slot comes to hold a session only in a request to /api/auth in
\* which verify_login returned PASSWORD_CORRECT or APPPASSWORD_CORRECT and,
\* where a TOTP code is due, the code was the right one: requests with
\* wrong, missing or rate-limited credentials create none, and neither does
\* a request without password on a system without password (the branch
\* that sets PASSWORD_CORRECT without calling verify_login).
C37_SessionOnlyByVerifiedLogin ==
    /\ [][\A i \in Slots : SessionCreated(i) =>
            /\ Handles("api_auth")
            /\ last'.slot = i
            /\ last'.pwsrc # "none"
            /\ last'.result \in {PASSWORD_CORRECT, APPPASSWORD_CORRECT}
            /\ (config.totp_secret # "" /\ last'.result = PASSWORD_CORRECT)
                 => last'.json_totp = GoodTotp]_vars
    /\ [](config.pwhash = "" =>
            \A req \in {r \in AuthRequests : NoPassword(r)} :
               \A o \in api_auth(auth_data, req, clock, clock) :
                  /\ o.slot = API_MAX_CLIENTS
                  /\ \A i \in Slots : o.ad[i].used => auth_data[i].used)

\* C37 witness: after a refused login (wrong or rate-limited password, or a
\* rejected TOTP code) left the table empty, a JSON login with the right
\* TOTP code created the only session.
C37_Witness ==
    /\ last.op = "api_auth"
    /\ last.pwsrc = "json"
    /\ last.result = PASSWORD_CORRECT
    /\ config.totp_secret # ""
    /\ last.json_totp = GoodTotp
    /\ last.slot \in Slots
    /\ auth_data[last.slot].used
    /\ \A i \in Slots \ {last.slot} : ~auth_data[i].used

\* C38: every used slot holds a sid and a csrf produced by the RNG at its
\* own login: neither is empty nor the token of another login, also when
\* getrandom fails in generateSID, and a request that presents an empty SID
\* is never authenticated by a slot.
C38_UsedSlotHoldsFreshTokens ==
    /\ [](\A i \in Slots : auth_data[i].used =>
            /\ auth_data[i].sid \in 1 .. rng
            /\ auth_data[i].csrf \in 1 .. rng
            /\ \A j \in Slots \ {i} : auth_data[j].used => auth_data[j].sid # auth_data[i].sid)
    /\ [][(Handles("api_auth") /\ last'.slot \in Slots) =>
            /\ auth_data'[last'.slot].sid = rng'
            /\ auth_data'[last'.slot].csrf = rng'
            /\ rng' = rng + 1]_vars
    /\ [][(Checks /\ last'.sid = EmptySid) => last'.cuid \notin Slots]_vars

====
